---- MODULE Spec2Model ----
(***************************************************************************)
(* Model of cobbler/items/item.py: the item inheritance graph (parent,     *)
(* depth, conceptual parent, descendants), attribute resolution and the    *)
(* resolved-dict cache with its invalidation on attribute writes.          *)
(***************************************************************************)
EXTENDS Integers, Sequences, FiniteSets, TLC

VARIABLES parent, depth, refs, kopts, scalar, fields, cache, registered,
          inmemory, has_initialized, settings, thread, last

graphVars == <<parent, depth, refs>>
attrVars == <<kopts, scalar, fields>>
envVars == <<registered, inmemory, has_initialized, settings, thread>>
vars == <<parent, depth, refs, kopts, scalar, fields, cache, registered,
          inmemory, has_initialized, settings, thread, last>>

(***************************************************************************)
(* Universe of items.  An item is identified by its name; its class gives  *)
(* COLLECTION_TYPE / TYPE_NAME.                                            *)
(***************************************************************************)
Distros == {"d1"}
Profiles == {"p1", "p2", "p3"}
\* A profile whose name differs from that of p1 only in the case of letters.
UpperProfiles == {"P1"}
Systems == {"s1"}
Items == Distros \cup Profiles \cup UpperProfiles \cup Systems

\* Iteration order of the collections (children and find_items scan in it).
ItemOrder == <<"d1", "p1", "p2", "p3", "P1", "s1">>

\* A name that no collection holds.
GHOST == "zz"
Names == Items \cup {GHOST}

COLLECTION_TYPE(x) ==
    IF x \in Distros THEN "distro"
    ELSE IF x \in Profiles \cup UpperProfiles THEN "profile"
    ELSE IF x \in Systems THEN "system"
    ELSE "generic"

\* Largest depth the model lets an assignment produce.
MaxDepth == 2

NONE == "<none>"
HANG == "<hang>"
RECURSION_ERROR == "<RecursionError>"

\* enums.VALUE_INHERITED, and the values of a dict attribute.
Keys == {"a", "b"}
ABSENT == "<absent>"
ANNIHILATOR == "<annihilate>"
Vals == {"1", "2"}
DictVals == [Keys -> Vals \cup {ABSENT, ANNIHILATOR}]
EmptyDict == [k \in Keys |-> ABSENT]
INHERITED == [inherit |-> TRUE, dict |-> EmptyDict]
Concrete(d) == [inherit |-> FALSE, dict |-> d]

\* A scalar inheritable attribute: the marker or a concrete string.  A
\* settings field that does not exist reads MISSING.
VALUE_INHERITED == "<<inherit>>"
MISSING == "<missing>"

\* The cross-type reference attributes named by the two tables below.
RefAttrs == {"distro", "profile", "image", "menu", "repos"}
NoRefs == [a \in RefAttrs |-> ""]

TYPE_DEPENDENCIES(t) ==
    CASE t = "repo" -> << <<"profile", "repos">> >>
      [] t = "distro" -> << <<"profile", "distro">> >>
      [] t = "menu" -> << <<"menu", "parent">>, <<"image", "menu">>,
                          <<"profile", "menu">> >>
      [] t = "profile" -> << <<"profile", "parent">>, <<"system", "profile">> >>
      [] t = "image" -> << <<"system", "image">> >>
      [] t = "system" -> << >>

\* First component of LOGICAL_INHERITANCE[t]: the previous levels.
LOGICAL_INHERITANCE(t) ==
    CASE t = "distro" -> << >>
      [] t = "profile" -> << <<"distro", "distro">> >>
      [] t = "image" -> << >>
      [] t = "system" -> << <<"image", "image">>, <<"profile", "profile">> >>
      [] OTHER -> << >>

InLogicalInheritance(t) == t \in {"distro", "profile", "image", "system"}

(***************************************************************************)
(* Collections and the match engine used by find_items.                    *)
(***************************************************************************)
\* Names listed in the order the collections iterate them.
RECURSIVE InOrder(_, _)
InOrder(S, i) ==
    IF i > Len(ItemOrder) THEN << >>
    ELSE (IF ItemOrder[i] \in S THEN <<ItemOrder[i]>> ELSE << >>)
         \o InOrder(S, i + 1)

\* api.get_items(t): the items registered in the collection of type t.
get_items(t) == {y \in Items : COLLECTION_TYPE(y) = t /\ registered[y]}

\* api.get_items(t).get(name): lookup by exact name, NONE when absent.
Get(t, name) == IF name \in get_items(t) THEN name ELSE NONE

\* str.lower() on the strings of the model.
lower(s) ==
    CASE s = "P1" -> "p1" [] s = "P*" -> "p*"
      [] s = "H1" -> "h1" [] s = "YES" -> "yes"
      [] s = "True" -> "true" [] s = "False" -> "false"
      [] OTHER -> s

\* Patterns holding one of ? * [ and what fnmatch.fnmatch gives for them.
HasGlob(s) == s \in {"p*", "h*"}
fnmatch(s, pat) ==
    \/ pat = "p*" /\ s \in {"p1", "p2", "p3", "p*"}
    \/ pat = "h*" /\ s \in {"h1", "h2", "h*"}

\* Item.__find_compare, string against string.
find_compare(from_search, from_obj) ==
    LET from_obj_lower == lower(from_obj)
        from_search_lower == lower(from_search)
    IN IF ~HasGlob(from_search_lower)
       THEN from_obj_lower = from_search_lower
       ELSE fnmatch(from_obj_lower, from_search_lower)

\* to_dict()[key] for the keys the dependency tables search on.
Data(y, key) ==
    CASE key = "name" -> y
      [] key = "parent" -> parent[y]
      [] OTHER -> refs[y][key]

\* Item.find_match_single_key for a top-level string field.
find_match_single_key(y, key, value) == find_compare(value, Data(y, key))

\* A leading ~ negates the comparison of the rest.
StartsWithTilde(value) == value \in {"~p1", "~h1", "~yes", "~no"}
StripTilde(value) ==
    CASE value = "~p1" -> "p1" [] value = "~h1" -> "h1"
      [] value = "~yes" -> "yes" [] value = "~no" -> "no"
      [] OTHER -> value

\* Item.find_match with one criterion.
find_match(y, key, value) ==
    IF StartsWithTilde(value)
    THEN ~find_match_single_key(y, key, StripTilde(value))
    ELSE find_match_single_key(y, key, value)

\* api.find_items(t, {key: value}, return_list=True).
find_items(t, key, value) == {y \in get_items(t) : find_match(y, key, value)}

\* api.find_items(t, name=value, return_list=False): one item or NONE.
find_item_by_name(t, value) ==
    LET found == find_items(t, "name", value)
    IN IF found = {} THEN NONE ELSE CHOOSE y \in found : TRUE

(***************************************************************************)
(* The match engine on the whole flattened attribute map: values are       *)
(* strings or booleans, a system has the nested mapping of its network     *)
(* interfaces, and a comparison can raise.                                 *)
(***************************************************************************)
Str(s) == [t |-> "str", s |-> s]
Bool(b) == [t |-> "bool", s |-> IF b THEN "True" ELSE "False"]
Num(n) == [t |-> "int", s |-> IF n = 1 THEN "1" ELSE "0"]

\* The names of the network interfaces and the interface-level field kept.
IfNames == {"eth0", "eth1"}
IfKey == "dns_name"

\* The interface-level field names find_match_single_key special-cases.
InterfaceKeys ==
    {"cnames", "connected_mode", "if_gateway", "ipv6_default_gateway",
     "ipv6_mtu", "ipv6_prefix", "ipv6_secondaries", "ipv6_static_routes",
     "management", "mtu", "static", "mac_address", "ip_address",
     "ipv6_address", "netmask", "virt_bridge", "dhcp_tag", "dns_name",
     "static_routes", "interface_type", "interface_master", "bonding_opts",
     "bridge_opts", "interface"}

\* The fields of a new item: netboot enabled, no interface.
NoFields == [x \in Items |-> [netboot_enabled |-> TRUE,
                              interfaces |-> [n \in {} |-> ""]]]

\* key in self.to_dict(): the top-level keys of the flattened map.
InData(y, key) ==
    \/ key \in {"name", "parent"}
    \/ COLLECTION_TYPE(y) = "profile" /\ key \in {"distro", "menu", "repos"}
    \/ COLLECTION_TYPE(y) = "system"
          /\ key \in {"profile", "image", "netboot_enabled", "interfaces"}

\* self.to_dict()[key] for a key of a string or boolean field.
to_dict(y, key) ==
    IF key = "netboot_enabled" THEN Bool(fields[y].netboot_enabled)
    ELSE Str(Data(y, key))

\* Item.__find_compare on strings and booleans: "True", "False", or the
\* exception raised.
find_compare_any(from_search, from_obj) ==
    IF from_obj.t = "str"
    THEN IF from_search.t # "str" THEN "AttributeError"
         ELSE IF find_compare(from_search.s, from_obj.s) THEN "True" ELSE "False"
    ELSE IF from_search.t = "str" /\ from_obj.t = "bool"
    THEN LET inp == lower(from_search.s) \in {"true", "1", "y", "yes"}
         IN IF inp = (from_obj.s = "True") THEN "True" ELSE "False"
    ELSE "TypeError"

\* The comparison made in the loop over the interfaces:
\* self.__find_compare(interface[key], value).
in_interface(interface_value, value) ==
    find_compare_any(Str(interface_value), Str(value))

\* The test made for a key that is not in the data: does the function
\* return False at once.
missing_key(key_found_already, value, no_errors) ==
    IF ~key_found_already THEN ~no_errors ELSE value # NONE

\* Item.find_match_single_key(data, key, value, no_errors) with data the
\* flattened map of y; value is a string or NONE.  Every field of an
\* interface is a string here, so no comparison in the loop raises and the
\* order of the interfaces does not matter.
find_match_single_key_in(y, key, value, no_errors) ==
    LET interfaces == fields[y].interfaces
        key_found_already == InData(y, "interfaces") /\ key \in InterfaceKeys
        nested == /\ key_found_already
                  /\ \E name \in DOMAIN interfaces :
                        \/ value = name
                        \/ /\ value # NONE
                           /\ key = IfKey
                           /\ in_interface(interfaces[name], value) = "True"
    IN IF nested THEN "True"
       ELSE IF ~InData(y, key) /\ missing_key(key_found_already, value, no_errors)
       THEN "False"
       ELSE IF value = NONE THEN "True"
       ELSE IF ~InData(y, key) THEN "KeyError"
       ELSE find_compare_any(Str(value), to_dict(y, key))

Negate(r) == CASE r = "True" -> "False" [] r = "False" -> "True" [] OTHER -> r

\* Variant: every criterion is evaluated and the last one decides.
RECURSIVE find_match_last(_, _, _, _)
find_match_last(y, kwargs, no_errors, i) ==
    IF i > Len(kwargs) THEN "True"
    ELSE LET key == kwargs[i][1]
             value == kwargs[i][2]
             res == IF value # NONE /\ StartsWithTilde(value)
                    THEN Negate(find_match_single_key_in(y, key, StripTilde(value),
                                                         no_errors))
                    ELSE find_match_single_key_in(y, key, value, no_errors)
         IN IF res = "True" \/ i < Len(kwargs)
            THEN find_match_last(y, kwargs, no_errors, i + 1)
            ELSE res

\* Item.find_match(kwargs, no_errors) from the i-th criterion on: kwargs is
\* the sequence of the (key, value) pairs in the order of the dict.
RECURSIVE find_match_all(_, _, _, _)
find_match_all(y, kwargs, no_errors, i) ==
    IF i > Len(kwargs) THEN "True"
    ELSE LET key == kwargs[i][1]
             value == kwargs[i][2]
             res == IF value # NONE /\ StartsWithTilde(value)
                    THEN Negate(find_match_single_key_in(y, key, StripTilde(value),
                                                         no_errors))
                    ELSE find_match_single_key_in(y, key, value, no_errors)
         IN IF res = "True"
            THEN find_match_all(y, kwargs, no_errors, i + 1)
            ELSE res

(***************************************************************************)
(* The parent graph.                                                       *)
(***************************************************************************)
\* Item.parent (getter).
Parent(x) == IF parent[x] = "" THEN NONE ELSE Get(COLLECTION_TYPE(x), parent[x])

\* The while loop of get_conceptual_parent: the topmost same-type ancestor.
\* A chain of distinct items is no longer than the universe, so the loop
\* runs on after Cardinality(Items) steps exactly when it never ends.
RECURSIVE Topmost(_, _)
Topmost(curr_obj, n) ==
    LET next_obj == Parent(curr_obj)
    IN IF next_obj = NONE THEN curr_obj
       ELSE IF n = 0 THEN HANG
       ELSE Topmost(next_obj, n - 1)

RECURSIVE PrevLevelItem(_, _, _)
PrevLevelItem(curr_obj, levels, i) ==
    IF i > Len(levels) THEN NONE
    ELSE LET prev_level_type == levels[i][1]
             prev_level_name == refs[curr_obj][levels[i][2]]
             prev_level_item == IF prev_level_name # ""
                                THEN find_item_by_name(prev_level_type, prev_level_name)
                                ELSE NONE
         IN IF prev_level_item # NONE THEN prev_level_item
            ELSE PrevLevelItem(curr_obj, levels, i + 1)

\* Variant: the reference attributes of the item itself are consulted, not
\* those of its topmost ancestor.
get_conceptual_parent_own(x) ==
    IF Topmost(x, Cardinality(Items)) = HANG THEN HANG
    ELSE IF InLogicalInheritance(COLLECTION_TYPE(x))
    THEN PrevLevelItem(x, LOGICAL_INHERITANCE(COLLECTION_TYPE(x)), 1)
    ELSE NONE

\* Item.get_conceptual_parent: an item, NONE, or HANG when the loop never ends.
get_conceptual_parent(x) ==
    LET curr_obj == Topmost(x, Cardinality(Items))
    IN IF curr_obj = HANG THEN HANG
       ELSE IF InLogicalInheritance(COLLECTION_TYPE(curr_obj))
       THEN PrevLevelItem(curr_obj, LOGICAL_INHERITANCE(COLLECTION_TYPE(curr_obj)), 1)
       ELSE NONE

\* Variant: the conceptual parent is taken whether or not the item has a
\* parent of its own type.
logical_parent_conceptual(x) == get_conceptual_parent(x)

\* Item.logical_parent.
logical_parent(x) == IF Parent(x) = NONE THEN get_conceptual_parent(x) ELSE Parent(x)

\* Item.grab_tree with at most n steps of its while loop: the item, its
\* logical parents upwards; <<HANG>> when the loop or the conceptual
\* parent lookup inside it never ends.  The settings object appended last
\* is written "settings".
RECURSIVE grab_tree_n(_, _)
grab_tree_n(x, n) ==
    LET up == logical_parent(x)
    IN IF up = HANG \/ n = 0 THEN <<HANG>>
       ELSE IF up = NONE THEN <<x, "settings">>
       ELSE LET rest == grab_tree_n(up, n - 1)
            IN IF rest = <<HANG>> THEN <<HANG>> ELSE <<x>> \o rest

grab_tree(x) == grab_tree_n(x, Cardinality(Items))

\* Item.children: reverse scan of the item's own collection.
children(x) ==
    InOrder({obj \in get_items(COLLECTION_TYPE(x)) : parent[obj] = x}, 1)

RECURSIVE FlatMap(_, _, _)
\* Item.tree_walk with the interpreter's recursion depth n: the pre-order
\* list, holding RECURSION_ERROR when the recursion does not end.
RECURSIVE tree_walk_n(_, _)
tree_walk_n(x, n) ==
    IF n = 0 THEN <<RECURSION_ERROR>>
    ELSE FlatMap(children(x), 1, n)

\* Variant: a child is appended after its own walk.
FlatMap_post(cs, i, n) ==
    IF i > Len(cs) THEN << >>
    ELSE tree_walk_n(cs[i], n - 1) \o <<cs[i]>> \o FlatMap(cs, i + 1, n)

FlatMap(cs, i, n) ==
    IF i > Len(cs) THEN << >>
    ELSE <<cs[i]>> \o tree_walk_n(cs[i], n - 1) \o FlatMap(cs, i + 1, n)

RecursionDepth == Cardinality(Items) + 1

tree_walk(x) == tree_walk_n(x, RecursionDepth)

Range(s) == {s[i] : i \in DOMAIN s}

\* Item.descendants with recursion depth n: a set of items, holding
\* RECURSION_ERROR when the recursion does not end.
RECURSIVE descendants_n(_, _)
descendants_n(x, n) ==
    IF n = 0 THEN {RECURSION_ERROR}
    ELSE
    LET walk == tree_walk_n(x, n)
        childs == walk \o <<x>>
        deps == UNION {
                   UNION { find_items(TYPE_DEPENDENCIES(COLLECTION_TYPE(child))[j][1],
                                      TYPE_DEPENDENCIES(COLLECTION_TYPE(child))[j][2],
                                      child)
                           : j \in DOMAIN TYPE_DEPENDENCIES(COLLECTION_TYPE(child)) }
                   : child \in Range(childs) }
    IN IF RECURSION_ERROR \in Range(walk) THEN {RECURSION_ERROR}
       ELSE LET below == UNION {descendants_n(dep_item, n - 1) : dep_item \in deps}
            IN IF RECURSION_ERROR \in below THEN {RECURSION_ERROR}
               ELSE Range(walk) \cup deps \cup below

\* Variant: the descendants of a dependent item are not added.
descendants_direct(x) ==
    LET walk == tree_walk(x)
    IN Range(walk) \cup
       UNION { UNION { find_items(TYPE_DEPENDENCIES(COLLECTION_TYPE(child))[j][1],
                                  TYPE_DEPENDENCIES(COLLECTION_TYPE(child))[j][2],
                                  child)
                       : j \in DOMAIN TYPE_DEPENDENCIES(COLLECTION_TYPE(child)) }
               : child \in Range(walk \o <<x>>) }

\* Variant: the item itself is added to the result.
descendants_self(x) == descendants_n(x, RecursionDepth) \cup {x}

descendants(x) == descendants_n(x, RecursionDepth)

\* Item.descendants after its call of tree_walk has returned walk: the
\* loops over the dependent items.
descendants_of_walk(x, walk) ==
    LET childs == walk \o <<x>>
        deps == UNION {
                   UNION { find_items(TYPE_DEPENDENCIES(COLLECTION_TYPE(child))[j][1],
                                      TYPE_DEPENDENCIES(COLLECTION_TYPE(child))[j][2],
                                      child)
                           : j \in DOMAIN TYPE_DEPENDENCIES(COLLECTION_TYPE(child)) }
                   : child \in Range(childs) }
        below == UNION {descendants_n(dep_item, RecursionDepth - 1) : dep_item \in deps}
    IN IF RECURSION_ERROR \in below THEN {RECURSION_ERROR}
       ELSE Range(walk) \cup deps \cup below

\* The frames of a running tree_walk: of each call the children it has
\* still to visit.  A call whose loop has ended returns.
RECURSIVE Returned(_)
Returned(stack) ==
    IF stack = << >> THEN << >>
    ELSE IF stack[Len(stack)] = << >> THEN Returned(SubSeq(stack, 1, Len(stack) - 1))
    ELSE stack

\* Variant: the children of the visited child are not walked.
walk_child_shallow(stack, child) ==
    Returned(SubSeq(stack, 1, Len(stack) - 1) \o <<Tail(stack[Len(stack)])>>)

\* One turn of the loop of tree_walk on the first child left in the
\* innermost call: child.tree_walk() is entered and reads child.children.
walk_child(stack, child) ==
    Returned(SubSeq(stack, 1, Len(stack) - 1)
             \o <<Tail(stack[Len(stack)]), children(child)>>)

(***************************************************************************)
(* Attribute resolution.                                                   *)
(***************************************************************************)
\* Variant: the entries already in m are kept.
Update_keep(m, d) == [k \in Keys |-> IF m[k] # ABSENT THEN m[k] ELSE d[k]]

\* dict.update: the entries of d replace those of m.
Update(m, d) == [k \in Keys |-> IF d[k] # ABSENT THEN d[k] ELSE m[k]]

\* utils.dict_annihilate: a key whose value is the annihilator is deleted.
dict_annihilate(m) == [k \in Keys |-> IF m[k] = ANNIHILATOR THEN ABSENT ELSE m[k]]

Ok(d) == [st |-> "ok", d |-> d]
Hung == [st |-> "hang", d |-> EmptyDict]

\* A dict-valued settings field: whether the settings object has it, and
\* its value.
Field(d) == [present |-> TRUE, d |-> d]
NoField == [present |-> FALSE, d |-> EmptyDict]

\* hasattr(settings, name) / getattr(settings, name) for the dict fields.
settings_dict(name) ==
    CASE name = "kernel_options" ->
             IF settings.has_kernel_options THEN Field(settings.kernel_options)
             ELSE NoField
      [] name = "default_kernel_options" -> settings.default_kernel_options
      [] OTHER -> NoField

\* Item.__common_resolve: the raw attribute and the settings name.
settings_name_of(property_name) ==
    IF property_name = "owners" THEN "default_ownership" ELSE property_name

\* Item._resolve_dict("kernel_options"); the getter of the conceptual
\* parent resolves in turn.  Hung when get_conceptual_parent never returns.
RECURSIVE resolve_dict(_)
\* Variant: the merged dict is returned without the call of dict_annihilate.
resolve_dict_merged(x) ==
    LET attribute_value == kopts[x]
        conceptual_parent == get_conceptual_parent(x)
    IN IF conceptual_parent = HANG THEN Hung
       ELSE LET up == IF conceptual_parent # NONE
                      THEN resolve_dict(conceptual_parent)
                      ELSE IF settings_dict("kernel_options").present
                      THEN Ok(settings_dict("kernel_options").d)
                      ELSE Ok(EmptyDict)
            IN IF up.st # "ok" THEN Hung
               ELSE IF ~attribute_value.inherit
               THEN Ok(Update(up.d, attribute_value.dict))
               ELSE Ok(up.d)

resolve_dict(x) ==
    LET attribute_value == kopts[x]
        conceptual_parent == get_conceptual_parent(x)
    IN IF conceptual_parent = HANG THEN Hung
       ELSE LET up == IF conceptual_parent # NONE
                      THEN resolve_dict(conceptual_parent)
                      ELSE IF settings_dict("kernel_options").present
                      THEN Ok(settings_dict("kernel_options").d)
                      ELSE Ok(EmptyDict)
            IN IF up.st # "ok" THEN Hung
               ELSE LET merged_dict ==
                            IF ~attribute_value.inherit
                            THEN Update(up.d, attribute_value.dict)
                            ELSE up.d
                    IN Ok(dict_annihilate(merged_dict))

\* Variant: the same-type parent is not consulted.
deduplicate_dict_no_parent(x, value) ==
    LET conceptual_parent == get_conceptual_parent(x)
    IN IF conceptual_parent = HANG THEN Hung
       ELSE LET parent_value ==
                    IF conceptual_parent # NONE
                    THEN resolve_dict(conceptual_parent)
                    ELSE IF settings_dict("kernel_options").present
                    THEN Ok(settings_dict("kernel_options").d)
                    ELSE IF settings_dict("default_kernel_options").present
                    THEN Ok(settings_dict("default_kernel_options").d)
                    ELSE Ok(EmptyDict)
            IN IF parent_value.st # "ok" THEN Hung
               ELSE Ok([key \in Keys |->
                          IF parent_value.d[key] # ABSENT
                             /\ value[key] # ABSENT
                             /\ parent_value.d[key] = value[key]
                          THEN ABSENT
                          ELSE value[key]])

\* Item._deduplicate_dict("kernel_options", value).
deduplicate_dict(x, value) ==
    LET conceptual_parent == get_conceptual_parent(x)
    IN IF conceptual_parent = HANG THEN Hung
       ELSE LET parent_value ==
                    IF Parent(x) # NONE THEN resolve_dict(Parent(x))
                    ELSE IF conceptual_parent # NONE
                    THEN resolve_dict(conceptual_parent)
                    ELSE IF settings_dict(settings_name_of("kernel_options")).present
                    THEN Ok(settings_dict(settings_name_of("kernel_options")).d)
                    ELSE IF settings_dict("default_"
                                \o settings_name_of("kernel_options")).present
                    THEN Ok(settings_dict("default_"
                                \o settings_name_of("kernel_options")).d)
                    ELSE Ok(EmptyDict)
            IN IF parent_value.st # "ok" THEN Hung
               ELSE Ok([key \in Keys |->
                          IF parent_value.d[key] # ABSENT
                             /\ value[key] # ABSENT
                             /\ parent_value.d[key] = value[key]
                          THEN ABSENT
                          ELSE value[key]])

\* The scalar property of the model and the classes that define it with a
\* getter that resolves it (the distro, profile and system classes all do).
PROP == "redhat_management_key"
HasProperty(t, property_name) ==
    property_name = PROP /\ t \in {"distro", "profile", "system"}

\* hasattr(settings, name) / getattr(settings, name) for the names of PROP.
settings_get(name) ==
    CASE name = PROP -> settings.field
      [] name = "default_" \o PROP -> settings.default_field
      [] OTHER -> MISSING

Found(v) == [st |-> "ok", v |-> v]
Raised(x) == [st |-> "AttributeError", v |-> x]
Never == [st |-> "hang", v |-> ""]
NotFound == [st |-> "none", v |-> ""]

\* Variant: the default_ field is consulted before the field itself.
from_settings_default_first(settings_name) ==
    IF settings_get("default_" \o settings_name) # MISSING
    THEN Found(settings_get("default_" \o settings_name))
    ELSE IF settings_get(settings_name) # MISSING
    THEN Found(settings_get(settings_name))
    ELSE NotFound

\* The settings part of __resolve_get_parent_or_settings.
from_settings(settings_name) ==
    IF settings_get(settings_name) # MISSING
    THEN Found(settings_get(settings_name))
    ELSE IF settings_get("default_" \o settings_name) # MISSING
    THEN Found(settings_get("default_" \o settings_name))
    ELSE NotFound

\* Item._resolve(property_name) with Item.__resolve_get_parent_or_settings;
\* hasattr(o, name) runs the getter of o and is false when it raises
\* AttributeError.  Never when get_conceptual_parent does not return.
RECURSIVE resolve(_, _)
resolve(x, property_name) ==
    LET attribute_value == scalar[x]
        settings_name == settings_name_of(property_name)
        conceptual_parent == get_conceptual_parent(x)
        of_parent == IF Parent(x) # NONE
                        /\ HasProperty(COLLECTION_TYPE(Parent(x)), property_name)
                     THEN resolve(Parent(x), property_name)
                     ELSE NotFound
        of_conceptual == IF conceptual_parent # NONE
                            /\ HasProperty(COLLECTION_TYPE(conceptual_parent),
                                           property_name)
                         THEN resolve(conceptual_parent, property_name)
                         ELSE NotFound
        possible_return ==
            IF of_parent.st \in {"ok", "hang"} THEN of_parent
            ELSE IF of_conceptual.st \in {"ok", "hang"} THEN of_conceptual
            ELSE from_settings(settings_name)
    IN IF attribute_value # VALUE_INHERITED THEN Found(attribute_value)
       ELSE IF conceptual_parent = HANG THEN Never
       ELSE IF possible_return.st = "none" THEN Raised(x)
       ELSE possible_return

\* enum_type(value): the member of the enumeration that has this value.
enum_type(v) == "enum:" \o v

\* The order of Item.__resolve_get_parent_or_settings: the attribute of the
\* same-type parent, else of the conceptual parent, else the settings.
first_found(of_parent, of_conceptual, of_settings) ==
    IF of_parent.st \in {"ok", "hang"} THEN of_parent
    ELSE IF of_conceptual.st \in {"ok", "hang"} THEN of_conceptual
    ELSE of_settings

\* hasattr(y, name) and getattr(y, name) on an item or None.
getattr_of(y, name) ==
    IF y # NONE /\ HasProperty(COLLECTION_TYPE(y), name)
    THEN resolve(y, name)
    ELSE NotFound

\* The end of Item._resolve_enum: the member for the value found, or the
\* AttributeError naming x.
enum_return(x, possible_return) ==
    IF possible_return.st = "none" THEN Raised(x)
    ELSE IF possible_return.st = "hang" THEN Never
    ELSE Found(enum_type(possible_return.v))

\* Item._resolve_enum(property_name, enum_type) on the same attribute, read
\* as an enumeration member whose value is scalar[x].  The lookup in the
\* parents is made under the name unwrapped_value, as the code passes it.
resolve_enum(x, property_name) ==
    LET unwrapped_value == scalar[x]
        attribute_value == enum_type(unwrapped_value)
        settings_name == settings_name_of(property_name)
        conceptual_parent == get_conceptual_parent(x)
    IN IF unwrapped_value # VALUE_INHERITED THEN Found(attribute_value)
       ELSE IF conceptual_parent = HANG THEN Never
       ELSE enum_return(x, first_found(getattr_of(Parent(x), unwrapped_value),
                                       getattr_of(conceptual_parent, unwrapped_value),
                                       from_settings(settings_name)))

(***************************************************************************)
(* The resolved-dict cache and its invalidation.                           *)
(***************************************************************************)
EMPTY == [populated |-> FALSE, value |-> EmptyDict]
Populated(d) == [populated |-> TRUE, value |-> d]

\* Whether the class attribute of this name is an InheritableProperty or
\* an InheritableDictProperty (parent and depth are LazyProperty).
IsInheritable(name) == name \in {"_kernel_options"}

\* Variant: the descendants are walked for every attribute of every item.
InvalidatesDescendants_any(x, name) == COLLECTION_TYPE(x) # "generic"

\* The condition under which _clean_dict_cache walks the descendants.
InvalidatesDescendants(x, name) ==
    /\ inmemory[x]
    /\ IsInheritable(name)
    /\ COLLECTION_TYPE(x) # "generic"
    /\ Get(COLLECTION_TYPE(x), x) # NONE

\* _clean_dict_cache raises when the descendants cannot be computed.
clean_raises(x, name) ==
    /\ settings.cache_enabled
    /\ InvalidatesDescendants(x, name)
    /\ RECURSION_ERROR \in descendants(x)

\* Variant: only the item's own entry is cleaned.
clean_dict_cache_own(c, x, name) ==
    IF ~settings.cache_enabled THEN c
    ELSE [y \in Items |-> IF y = x THEN EMPTY ELSE c[y]]

\* Variant: every entry of the table is cleaned.
clean_dict_cache_all(c, x, name) ==
    IF ~settings.cache_enabled THEN c
    ELSE [y \in Items |-> EMPTY]

\* Variant: the cache_enabled toggle is not read.
clean_dict_cache_always(c, x, name) ==
    LET deps == IF InvalidatesDescendants(x, name) THEN descendants(x) ELSE {}
    IN [y \in Items |-> IF y = x \/ y \in deps THEN EMPTY ELSE c[y]]

\* Variant: nothing is cleaned for an item that is not in memory.
clean_dict_cache_inmemory(c, x, name) ==
    IF ~settings.cache_enabled \/ ~inmemory[x] THEN c
    ELSE LET deps == IF InvalidatesDescendants(x, name) THEN descendants(x) ELSE {}
         IN [y \in Items |-> IF y = x \/ y \in deps THEN EMPTY ELSE c[y]]

\* Item._clean_dict_cache(name) on the cache table c.
clean_dict_cache(c, x, name) ==
    IF ~settings.cache_enabled THEN c
    ELSE LET deps == IF InvalidatesDescendants(x, name) THEN descendants(x) ELSE {}
         IN [y \in Items |-> IF y = x \/ y \in deps THEN EMPTY ELSE c[y]]

\* BaseItem._is_dict_key on the attribute names of the model.
is_dict_key(name) == name \in {"_parent", "_depth", "_kernel_options"}

\* Variant: the cleanup is made during construction as well.
setattr_cache_always(c, x, name) ==
    IF is_dict_key(name) THEN clean_dict_cache(c, x, name) ELSE c

\* The cache part of Item.__setattr__(name, value).
setattr_cache(c, x, name) ==
    IF is_dict_key(name) /\ has_initialized[x]
    THEN clean_dict_cache(c, x, name)
    ELSE c

setattr_raises(x, name) ==
    is_dict_key(name) /\ has_initialized[x] /\ clean_raises(x, name)

(***************************************************************************)
(* Operations.                                                             *)
(***************************************************************************)
Call(op, x, name, val, out, ret) ==
    [op |-> op, item |-> x, name |-> name, val |-> val, out |-> out, ret |-> ret,
     got |-> "", walk |-> << >>, kwargs |-> << >>, no_errors |-> FALSE,
     pre |-> << >>]

\* Variant: the self-parentage test is missing.
parent_refused_no_self(x, name, found) == found = NONE

\* Variant: the parent's depth is copied without the increment.
new_depth_same(found) == depth[found]

\* The two refusals of the parent setter: self parentage, parent not found.
parent_refused(x, name, found) == name = x \/ found = NONE

\* The depth the parent setter assigns.
new_depth(found) == depth[found] + 1

\* Item.parent (setter).
SetParent(x, name) ==
    LET found == Get(COLLECTION_TYPE(x), name)
    IN IF name = ""
       THEN /\ parent' = [parent EXCEPT ![x] = ""]
            /\ cache' = setattr_cache(cache, x, "_parent")
            /\ last' = Call("parent", x, name, INHERITED, "ok", EmptyDict)
            /\ UNCHANGED <<depth, refs, attrVars, envVars>>
       ELSE IF parent_refused(x, name, found)
       THEN /\ last' = Call("parent", x, name, INHERITED, "CX", EmptyDict)
            /\ UNCHANGED <<graphVars, attrVars, cache, envVars>>
       ELSE /\ new_depth(found) <= MaxDepth
            /\ parent' = [parent EXCEPT ![x] = name]
            /\ depth' = [depth EXCEPT ![x] = new_depth(found)]
            /\ cache' = setattr_cache(setattr_cache(cache, x, "_parent"), x, "_depth")
            /\ last' = Call("parent", x, name, INHERITED, "ok", EmptyDict)
            /\ UNCHANGED <<refs, attrVars, envVars>>

\* Item.kernel_options (setter) with a dict or the inherit marker.
SetKernelOptions(x, value) ==
    LET stored == IF value.inherit THEN Ok(EmptyDict)
                  ELSE deduplicate_dict(x, value.dict)
    IN IF stored.st # "ok"
       THEN /\ last' = Call("kernel_options", x, "", value, "hang", EmptyDict)
            /\ UNCHANGED <<graphVars, attrVars, cache, envVars>>
       ELSE IF setattr_raises(x, "_kernel_options")
       THEN /\ last' = Call("kernel_options", x, "", value, "RecursionError", EmptyDict)
            /\ UNCHANGED <<graphVars, attrVars, cache, envVars>>
       ELSE /\ cache' = setattr_cache(cache, x, "_kernel_options")
            /\ kopts' = [kopts EXCEPT ![x] =
                            IF value.inherit THEN INHERITED ELSE Concrete(stored.d)]
            /\ last' = Call("kernel_options", x, "", value, "ok", EmptyDict)
            /\ UNCHANGED <<graphVars, scalar, fields, envVars>>

\* Read-through of the resolved value: a hit returns the cached value, a
\* miss resolves and populates the entry.
Resolve(x) ==
    IF settings.cache_enabled /\ cache[x].populated
    THEN /\ last' = Call("resolve", x, "", INHERITED, "ok", cache[x].value)
         /\ UNCHANGED <<graphVars, attrVars, cache, envVars>>
    ELSE LET r == resolve_dict(x)
         IN IF r.st # "ok"
            THEN /\ last' = Call("resolve", x, "", INHERITED, "hang", EmptyDict)
                 /\ UNCHANGED <<graphVars, attrVars, cache, envVars>>
            ELSE /\ cache' = IF settings.cache_enabled
                             THEN [cache EXCEPT ![x] = Populated(r.d)]
                             ELSE cache
                 /\ last' = Call("resolve", x, "", INHERITED, "ok", r.d)
                 /\ UNCHANGED <<graphVars, attrVars, envVars>>

(***************************************************************************)
(* Specification: profiles under one distro, all items registered.         *)
(***************************************************************************)
DictInputs == {INHERITED, Concrete(EmptyDict), Concrete([k \in Keys |-> "1"])}

NoCall == Call("init", "", "", INHERITED, "ok", EmptyDict)

\* The operation in progress when an operation is made in several steps
\* that other threads can interleave with: none here.  lock tells whether
\* the callers hold one global lock for the whole of every operation.
NoThread == [lock |-> TRUE, op |-> "idle", item |-> "", arg |-> INHERITED,
             val |-> INHERITED, stack |-> << >>, out |-> << >>, pre |-> << >>]

Init ==
    /\ parent = [x \in Items |-> ""]
    /\ depth = [x \in Items |-> 0]
    /\ refs = [x \in Items |->
                 IF x = "p1" THEN [NoRefs EXCEPT !["distro"] = "d1"] ELSE NoRefs]
    /\ kopts = [x \in Items |-> Concrete(EmptyDict)]
    /\ scalar = [x \in Items |-> VALUE_INHERITED]
    /\ fields = NoFields
    /\ cache = [x \in Items |-> EMPTY]
    /\ registered = [x \in Items |-> x \notin UpperProfiles]
    /\ inmemory = [x \in Items |-> TRUE]
    /\ has_initialized = [x \in Items |-> TRUE]
    /\ settings = [cache_enabled |-> TRUE, kernel_options |-> EmptyDict,
                   has_kernel_options |-> TRUE,
                   default_kernel_options |-> NoField,
                   field |-> MISSING, default_field |-> MISSING]
    /\ thread = NoThread
    /\ last = NoCall

\* The items and inputs the operations are exercised on.
Movable == {"p1", "p2"}
Written == {"d1", "p1"}
Resolved == {"d1", "p1", "p2"}
ParentInputs == Profiles \cup {"", "d1", GHOST}

Next ==
    \/ \E x \in Movable, name \in ParentInputs : SetParent(x, name)
    \/ \E x \in Written, value \in DictInputs : SetKernelOptions(x, value)
    \/ \E x \in Resolved : Resolve(x)

Spec == Init /\ [][Next]_vars

\* The getter of the scalar property: Item._resolve(PROP).
ResolveScalar(x) ==
    LET r == resolve(x, PROP)
    IN /\ last' = [Call("resolve_scalar", x, "", INHERITED,
                         IF r.st = "ok" THEN "ok" ELSE r.st, EmptyDict)
                    EXCEPT !.got = r.v]
       /\ UNCHANGED <<graphVars, attrVars, cache, envVars>>

\* The getter of the property read as an enumeration: Item._resolve_enum.
ResolveEnum(x) ==
    LET r == resolve_enum(x, PROP)
    IN /\ last' = [Call("resolve_enum", x, "", INHERITED,
                         IF r.st = "ok" THEN "ok" ELSE r.st, EmptyDict)
                    EXCEPT !.got = r.v]
       /\ UNCHANGED <<graphVars, attrVars, cache, envVars>>

(***************************************************************************)
(* Specification of scalar resolution: the raw values of the property and  *)
(* the settings fields are drawn, the parent graph is built by the setter. *)
(***************************************************************************)
ScalarItems == Items
OwnValue(x) == "of-" \o x

ResolveInit ==
    /\ parent = [x \in Items |-> ""]
    /\ depth = [x \in Items |-> 0]
    /\ refs = [x \in Items |->
                 IF x = "p1" THEN [NoRefs EXCEPT !["distro"] = "d1"]
                 ELSE IF x = "s1" THEN [NoRefs EXCEPT !["profile"] = "p2"]
                 ELSE NoRefs]
    /\ kopts = [x \in Items |-> Concrete(EmptyDict)]
    /\ \E S \in SUBSET (Distros \cup Profiles) :
          scalar = [x \in Items |-> IF x \in S THEN OwnValue(x) ELSE VALUE_INHERITED]
    /\ fields = NoFields
    /\ cache = [x \in Items |-> EMPTY]
    /\ registered = [x \in Items |-> x \notin UpperProfiles]
    /\ inmemory = [x \in Items |-> TRUE]
    /\ has_initialized = [x \in Items |-> TRUE]
    /\ settings \in [cache_enabled : {TRUE}, kernel_options : {EmptyDict},
                      has_kernel_options : {TRUE},
                      default_kernel_options : {NoField},
                      field : {MISSING, "field"},
                      default_field : {MISSING, "default"}]
    /\ thread = NoThread
    /\ last = NoCall

ResolveNext ==
    \/ \E x \in Movable, name \in Profiles \cup {""} : SetParent(x, name)
    \/ \E x \in ScalarItems : ResolveScalar(x)
    \/ \E x \in ScalarItems : ResolveEnum(x)

SpecResolve == ResolveInit /\ [][ResolveNext]_vars

\* C10: the order of scalar resolution as stated: the value of the same-type
\* parent, else of the conceptual parent, else the settings field, else the
\* settings field default_<name>; MISSING when none of the four has one.
RECURSIVE C10_Stated(_)
C10_Stated(x) ==
    LET cp == get_conceptual_parent(x)
        a == IF Parent(x) # NONE THEN C10_Stated(Parent(x)) ELSE MISSING
        b == IF cp # NONE /\ HasProperty(COLLECTION_TYPE(cp), PROP)
             THEN C10_Stated(cp) ELSE MISSING
        c == settings.field
        d == settings.default_field
    IN IF scalar[x] # VALUE_INHERITED THEN scalar[x]
       ELSE IF a # MISSING THEN a
       ELSE IF b # MISSING THEN b
       ELSE IF c # MISSING THEN c
       ELSE d

\* C10: a call of the scalar getter on an item whose raw value is not
\* INHERITED returns that raw value whatever the graph is; a call on an
\* INHERITED raw value that comes back returns the first value of the stated
\* order, and raises an error naming the item exactly when the order has no
\* value.
C10_ScalarOrder ==
    last.op = "resolve_scalar" =>
        LET x == last.item
        IN /\ scalar[x] # VALUE_INHERITED =>
                  last.out = "ok" /\ last.got = scalar[x]
           /\ scalar[x] = VALUE_INHERITED /\ last.out # "hang" =>
                  /\ (last.out = "AttributeError") <=> (C10_Stated(x) = MISSING)
                  /\ last.out = "AttributeError" => last.got = x
                  /\ last.out = "ok" => last.got = C10_Stated(x)

\* C10 witness: the system inherits, its profile p2 inherits and has the
\* parent p1, which holds a value while the distro of p1 holds another.
C10_Witness ==
    /\ last.op = "resolve_scalar" /\ last.item = "s1" /\ last.out = "ok"
    /\ last.got = OwnValue("p1")
    /\ parent["p2"] = "p1" /\ scalar["p2"] = VALUE_INHERITED
    /\ scalar["d1"] = OwnValue("d1")
    /\ settings.field # MISSING

\* Variant: the getter stores the merged mapping as the raw value.
GetKernelOptions_store(x) ==
    LET r == resolve_dict(x)
    IN /\ last' = Call("kernel_options_get", x, "", INHERITED,
                        IF r.st = "ok" THEN "ok" ELSE "hang", r.d)
       /\ kopts' = [kopts EXCEPT ![x] = Concrete(r.d)]
       /\ UNCHANGED <<graphVars, scalar, fields, cache, envVars>>

\* Item.kernel_options (getter): Item._resolve_dict("kernel_options").
GetKernelOptions(x) ==
    LET r == resolve_dict(x)
    IN /\ last' = Call("kernel_options_get", x, "", INHERITED,
                        IF r.st = "ok" THEN "ok" ELSE "hang", r.d)
       /\ UNCHANGED <<graphVars, attrVars, cache, envVars>>

\* Item.tree_walk() called on x.
TreeWalk(x) ==
    LET r == tree_walk(x)
        raised == RECURSION_ERROR \in Range(r)
    IN /\ last' = [Call("tree_walk", x, "", INHERITED,
                         IF raised THEN "RecursionError" ELSE "ok", EmptyDict)
                    EXCEPT !.walk = IF raised THEN << >> ELSE r]
       /\ UNCHANGED <<graphVars, attrVars, cache, envVars>>

\* Item.descendants read on x; list(results) lists the set in the order of
\* the collections.
Descendants(x) ==
    LET r == descendants(x)
        raised == RECURSION_ERROR \in r
    IN /\ last' = [Call("descendants", x, "", INHERITED,
                         IF raised THEN "RecursionError" ELSE "ok", EmptyDict)
                    EXCEPT !.walk = IF raised THEN << >> ELSE InOrder(r, 1)]
       /\ UNCHANGED <<graphVars, attrVars, cache, envVars>>

\* Item.get_conceptual_parent() called on x.
GetConceptualParent(x) ==
    LET r == get_conceptual_parent(x)
    IN /\ last' = [Call("get_conceptual_parent", x, "", INHERITED,
                         IF r = HANG THEN "hang" ELSE "ok", EmptyDict)
                    EXCEPT !.got = IF r = HANG THEN "" ELSE r]
       /\ UNCHANGED <<graphVars, attrVars, cache, envVars>>

\* Item.grab_tree() called on x.
GrabTree(x) ==
    LET r == grab_tree(x)
    IN /\ last' = [Call("grab_tree", x, "", INHERITED,
                         IF r = <<HANG>> THEN "hang" ELSE "ok", EmptyDict)
                    EXCEPT !.walk = IF r = <<HANG>> THEN << >> ELSE r]
       /\ UNCHANGED <<graphVars, attrVars, cache, envVars>>

\* clean_cache() called on x without an attribute name: the explicit clear.
CleanCache(x) ==
    /\ cache' = clean_dict_cache(cache, x, "")
    /\ last' = Call("clean_cache", x, "", INHERITED, "ok", EmptyDict)
    /\ UNCHANGED <<graphVars, attrVars, envVars>>

\* The settings field cache_enabled is given the value b.
SetCacheEnabled(b) ==
    /\ settings' = [settings EXCEPT !.cache_enabled = b]
    /\ last' = Call("cache_enabled", "", IF b THEN "true" ELSE "false",
                     INHERITED, "ok", EmptyDict)
    /\ UNCHANGED <<graphVars, attrVars, cache, registered, inmemory,
                   has_initialized, thread>>

\* The end of Item.__init__: _has_initialized becomes true.
FinishInit(x) ==
    /\ ~has_initialized[x]
    /\ has_initialized' = [has_initialized EXCEPT ![x] = TRUE]
    /\ last' = Call("init", x, "", INHERITED, "ok", EmptyDict)
    /\ UNCHANGED <<graphVars, attrVars, cache, registered, inmemory, settings,
                   thread>>

(***************************************************************************)
(* Specification of construction: the object p3 is under construction and  *)
(* seeded through its setters; whether the profile collection already      *)
(* holds an item of that name (with p2 as a possible child) is drawn.      *)
(***************************************************************************)
ConstructInit ==
    /\ parent = [x \in Items |-> ""]
    /\ depth = [x \in Items |-> 0]
    /\ refs = [x \in Items |->
                 IF x = "p1" THEN [NoRefs EXCEPT !["distro"] = "d1"] ELSE NoRefs]
    /\ kopts = [x \in Items |-> Concrete(EmptyDict)]
    /\ scalar = [x \in Items |-> VALUE_INHERITED]
    /\ fields = NoFields
    /\ cache = [x \in Items |-> EMPTY]
    /\ \E b \in BOOLEAN :
          registered = [x \in Items |-> /\ x \notin UpperProfiles
                                         /\ (x # "p3" \/ b)]
    /\ inmemory = [x \in Items |-> TRUE]
    /\ has_initialized = [x \in Items |-> x # "p3"]
    /\ settings = [cache_enabled |-> TRUE, kernel_options |-> EmptyDict,
                   has_kernel_options |-> TRUE,
                   default_kernel_options |-> NoField,
                   field |-> MISSING, default_field |-> MISSING]
    /\ thread = NoThread
    /\ last = NoCall

ConstructNext ==
    \/ \E name \in {"", "p1"} : SetParent("p3", name)
    \/ \E name \in {"", "p3"} : SetParent("p2", name)
    \/ \E value \in DictInputs : SetKernelOptions("p3", value)
    \/ \E x \in {"p1", "p2", "p3"} : has_initialized[x] /\ Resolve(x)
    \/ FinishInit("p3")

SpecConstruct == ConstructInit /\ [][ConstructNext]_vars

(***************************************************************************)
(* Specification of the conceptual parent: the reference attributes of the *)
(* system s1 and of the profile p1 are drawn (empty, the inherit marker, a *)
(* name no collection holds, an item), the parents of p2 and p3 are set.   *)
(***************************************************************************)
ConceptualInit ==
    /\ parent = [x \in Items |-> ""]
    /\ depth = [x \in Items |-> 0]
    /\ \E image \in {"", VALUE_INHERITED, GHOST},
          profile \in {"", "p2", GHOST},
          distro \in {"d1", GHOST} :
          refs = [x \in Items |->
                    IF x = "p1" THEN [NoRefs EXCEPT !["distro"] = distro]
                    ELSE IF x = "s1"
                    THEN [NoRefs EXCEPT !["image"] = image, !["profile"] = profile]
                    ELSE NoRefs]
    /\ kopts = [x \in Items |-> Concrete(EmptyDict)]
    /\ scalar = [x \in Items |-> VALUE_INHERITED]
    /\ fields = NoFields
    /\ cache = [x \in Items |-> EMPTY]
    /\ registered = [x \in Items |-> x \notin UpperProfiles]
    /\ inmemory = [x \in Items |-> TRUE]
    /\ has_initialized = [x \in Items |-> TRUE]
    /\ settings = [cache_enabled |-> TRUE, kernel_options |-> EmptyDict,
                   has_kernel_options |-> TRUE,
                   default_kernel_options |-> NoField,
                   field |-> MISSING, default_field |-> MISSING]
    /\ thread = NoThread
    /\ last = NoCall

ConceptualNext ==
    \/ \E x \in {"p2", "p3"}, name \in {"", "p1", "p2"} : SetParent(x, name)
    \/ \E x \in Items \ UpperProfiles : GetConceptualParent(x)

SpecConceptual == ConceptualInit /\ [][ConceptualNext]_vars

\* Item.find_match(kwargs, no_errors) called on y.
FindMatch(y, kwargs, no_errors) ==
    LET r == find_match_all(y, kwargs, no_errors, 1)
        returned == r \in {"True", "False"}
    IN /\ last' = [Call("find_match", y, "", INHERITED,
                         IF returned THEN "ok" ELSE r, EmptyDict)
                    EXCEPT !.got = IF returned THEN r ELSE "",
                           !.kwargs = kwargs, !.no_errors = no_errors]
       /\ UNCHANGED <<graphVars, attrVars, cache, envVars>>

\* Item.find_match_single_key(self.to_dict(), key, value, no_errors) called
\* on y.
FindMatchSingleKey(y, key, value, no_errors) ==
    LET r == find_match_single_key_in(y, key, value, no_errors)
        returned == r \in {"True", "False"}
    IN /\ last' = [Call("find_match_single_key", y, "", INHERITED,
                         IF returned THEN "ok" ELSE r, EmptyDict)
                    EXCEPT !.got = IF returned THEN r ELSE "",
                           !.kwargs = << <<key, value>> >>,
                           !.no_errors = no_errors]
       /\ UNCHANGED <<graphVars, attrVars, cache, envVars>>

(***************************************************************************)
(* Specification of matching: the system s1 on profile p1 is built with a  *)
(* drawn netboot flag and zero to two interfaces with drawn DNS names;     *)
(* s1 and p1 are matched against one or two criteria.                      *)
(***************************************************************************)
DnsNames == {"h1", "h2"}

MatchInit ==
    /\ parent = [x \in Items |-> ""]
    /\ depth = [x \in Items |-> 0]
    /\ refs = [x \in Items |->
                 IF x = "p1" THEN [NoRefs EXCEPT !["distro"] = "d1"]
                 ELSE IF x = "s1" THEN [NoRefs EXCEPT !["profile"] = "p1"]
                 ELSE NoRefs]
    /\ kopts = [x \in Items |-> Concrete(EmptyDict)]
    /\ scalar = [x \in Items |-> VALUE_INHERITED]
    /\ \E b \in BOOLEAN, S \in {{}, {"eth0"}, IfNames} :
          \E ifs \in [S -> DnsNames] :
             fields = [NoFields EXCEPT !["s1"] =
                          [netboot_enabled |-> b, interfaces |-> ifs]]
    /\ cache = [x \in Items |-> EMPTY]
    /\ registered = [x \in Items |-> x \notin UpperProfiles]
    /\ inmemory = [x \in Items |-> TRUE]
    /\ has_initialized = [x \in Items |-> TRUE]
    /\ settings = [cache_enabled |-> TRUE, kernel_options |-> EmptyDict,
                   has_kernel_options |-> TRUE,
                   default_kernel_options |-> NoField,
                   field |-> MISSING, default_field |-> MISSING]
    /\ thread = NoThread
    /\ last = NoCall

BoolCriteria ==
    {<<"netboot_enabled", v>> : v \in {"yes", "YES", "1", "no", "~yes", "~no"}}
IfCriteria ==
    {<<IfKey, v>> : v \in {"h1", "H1", "h*", "eth0", "~h1", NONE}}
OtherCriteria ==
    {<<"name", "s1">>, <<"name", "p*">>, <<"nosuchfield", "h1">>,
     <<"nosuchfield", NONE>>}
MatchInputs ==
    {<<c>> : c \in BoolCriteria \cup IfCriteria \cup OtherCriteria}
    \cup {<<c1, c2>> :
            c1 \in {<<"netboot_enabled", "yes">>, <<"netboot_enabled", "~yes">>,
                    <<"name", "s1">>},
            c2 \in {<<"netboot_enabled", "no">>, <<"name", "p*">>,
                    <<IfKey, "h1">>, <<"nosuchfield", "h1">>}}

MatchNext ==
    \/ \E y \in {"s1", "p1"}, kwargs \in MatchInputs, no_errors \in BOOLEAN :
          FindMatch(y, kwargs, no_errors)
    \/ \E y \in {"s1", "p1"}, c \in IfCriteria, no_errors \in BOOLEAN :
          FindMatchSingleKey(y, c[1], c[2], no_errors)

SpecMatch == MatchInit /\ [][MatchNext]_vars

(***************************************************************************)
(* Specification of the cache toggle: caching is switched on and off       *)
(* between writes, resolved reads and explicit clears; p1 and p2 may be    *)
(* made each other's parent.                                               *)
(***************************************************************************)
ToggleWrites == {Concrete(EmptyDict), Concrete([k \in Keys |-> "1"])}

ToggleNext ==
    \/ \E b \in BOOLEAN : SetCacheEnabled(b)
    \/ \E x \in {"p1", "p2"}, name \in {"", "p1", "p2"} : SetParent(x, name)
    \/ \E x \in {"d1", "p1"}, value \in ToggleWrites : SetKernelOptions(x, value)
    \/ \E x \in {"d1", "p1", "p2"} : Resolve(x)
    \/ \E x \in {"p1", "p2"} : CleanCache(x)

SpecToggle == Init /\ [][ToggleNext]_vars

(***************************************************************************)
(* Specification of cache cleaning: whether caching is enabled and whether *)
(* p2 is registered in its collection and in memory are drawn.             *)
(***************************************************************************)
CacheInit ==
    /\ parent = [x \in Items |-> ""]
    /\ depth = [x \in Items |-> 0]
    /\ refs = [x \in Items |->
                 IF x = "p1" THEN [NoRefs EXCEPT !["distro"] = "d1"] ELSE NoRefs]
    /\ kopts = [x \in Items |-> Concrete(EmptyDict)]
    /\ scalar = [x \in Items |-> VALUE_INHERITED]
    /\ fields = NoFields
    /\ cache = [x \in Items |-> EMPTY]
    /\ \E b \in BOOLEAN :
          registered = [x \in Items |-> /\ x \notin UpperProfiles
                                         /\ (x # "p2" \/ b)]
    /\ \E b \in BOOLEAN : inmemory = [x \in Items |-> x # "p2" \/ b]
    /\ has_initialized = [x \in Items |-> TRUE]
    /\ settings \in [cache_enabled : BOOLEAN, kernel_options : {EmptyDict},
                      has_kernel_options : {TRUE},
                      default_kernel_options : {NoField},
                      field : {MISSING}, default_field : {MISSING}]
    /\ thread = NoThread
    /\ last = NoCall

CacheNext ==
    \/ \E name \in {"", "p1", "p3"} : SetParent("p2", name)
    \/ \E x \in {"p1", "p2"}, value \in DictInputs : SetKernelOptions(x, value)
    \/ \E x \in {"p1", "p2", "p3"} : Resolve(x)

SpecCache == CacheInit /\ [][CacheNext]_vars

\* The kernel_options setter up to and with the clean_cache call of
\* Item.__setattr__: the value is deduplicated and the cache is cleaned; the
\* raw value is not stored yet.
BeginSetKernelOptions(x, value) ==
    LET stored == IF value.inherit THEN Ok(EmptyDict)
                  ELSE deduplicate_dict(x, value.dict)
    IN /\ thread.op = "idle"
       /\ IF stored.st # "ok"
          THEN /\ last' = Call("kernel_options", x, "", value, "hang", EmptyDict)
               /\ UNCHANGED <<graphVars, attrVars, cache, envVars>>
          ELSE IF setattr_raises(x, "_kernel_options")
          THEN /\ last' = Call("kernel_options", x, "", value, "RecursionError",
                                EmptyDict)
               /\ UNCHANGED <<graphVars, attrVars, cache, envVars>>
          ELSE /\ cache' = setattr_cache(cache, x, "_kernel_options")
               /\ thread' = [thread EXCEPT
                                !.op = "kernel_options", !.item = x, !.arg = value,
                                !.val = IF value.inherit THEN INHERITED
                                        ELSE Concrete(stored.d)]
               /\ last' = Call("clean_cache", x, "_kernel_options", value, "ok",
                                EmptyDict)
               /\ UNCHANGED <<graphVars, attrVars, registered, inmemory,
                              has_initialized, settings>>

\* The end of Item.__setattr__ in the kernel_options setter: the raw value
\* is stored (super().__setattr__).
EndSetKernelOptions ==
    /\ thread.op = "kernel_options"
    /\ kopts' = [kopts EXCEPT ![thread.item] = thread.val]
    /\ thread' = [NoThread EXCEPT !.lock = thread.lock]
    /\ last' = Call("kernel_options", thread.item, "", thread.arg, "ok", EmptyDict)
    /\ UNCHANGED <<graphVars, scalar, fields, cache, registered, inmemory,
                   has_initialized, settings>>

WalkOps == {"tree_walk", "descendants"}

\* The start of x.tree_walk(), called directly or by x.descendants: the
\* children of x are read.  pre keeps what the whole call gives on the
\* graph as it is now.
BeginWalk(op, x) ==
    /\ thread.op = "idle"
    /\ thread' = [thread EXCEPT
                     !.op = op, !.item = x,
                     !.stack = Returned(<<children(x)>>), !.out = << >>,
                     !.pre = IF op = "tree_walk" THEN tree_walk(x)
                             ELSE IF RECURSION_ERROR \in descendants(x)
                             THEN <<RECURSION_ERROR>>
                             ELSE InOrder(descendants(x), 1)]
    /\ last' = Call("children", x, "", INHERITED, "ok", EmptyDict)
    /\ UNCHANGED <<graphVars, attrVars, cache, registered, inmemory,
                   has_initialized, settings>>

\* One turn of the loop of the innermost tree_walk call; the interpreter
\* raises RecursionError when the calls are nested too deep.
StepWalk ==
    /\ thread.op \in WalkOps
    /\ thread.stack # << >>
    /\ LET child == Head(thread.stack[Len(thread.stack)])
       IN IF Len(thread.stack) >= RecursionDepth
          THEN /\ thread' = [NoThread EXCEPT !.lock = thread.lock]
               /\ last' = [Call(thread.op, thread.item, "", INHERITED,
                                 "RecursionError", EmptyDict)
                            EXCEPT !.pre = thread.pre]
          ELSE /\ thread' = [thread EXCEPT
                                !.out = thread.out \o <<child>>,
                                !.stack = walk_child(thread.stack, child)]
               /\ last' = last
    /\ UNCHANGED <<graphVars, attrVars, cache, registered, inmemory,
                   has_initialized, settings>>

\* The outermost tree_walk call returns; descendants goes on with its loops
\* over the dependent items and returns too.
EndWalk ==
    /\ thread.op \in WalkOps
    /\ thread.stack = << >>
    /\ LET deps == descendants_of_walk(thread.item, thread.out)
           raised == thread.op = "descendants" /\ RECURSION_ERROR \in deps
       IN last' = [Call(thread.op, thread.item, "", INHERITED,
                        IF raised THEN "RecursionError" ELSE "ok", EmptyDict)
                   EXCEPT !.walk = IF raised THEN << >>
                                   ELSE IF thread.op = "tree_walk" THEN thread.out
                                   ELSE InOrder(deps, 1),
                          !.pre = thread.pre]
    /\ thread' = [NoThread EXCEPT !.lock = thread.lock]
    /\ UNCHANGED <<graphVars, attrVars, cache, registered, inmemory,
                   has_initialized, settings>>

(***************************************************************************)
(* Specification of a traversal beside a thread that assigns parents:      *)
(* p2 is a child of p1 and p3 of p2 at first, s1 is on profile p3.  At     *)
(* most one assignment is made while a traversal runs, none when the       *)
(* callers hold the global lock (drawn).                                   *)
(***************************************************************************)
WalkInit ==
    /\ parent = [x \in Items |->
                   IF x = "p2" THEN "p1" ELSE IF x = "p3" THEN "p2" ELSE ""]
    /\ depth = [x \in Items |-> IF x = "p2" THEN 1 ELSE IF x = "p3" THEN 2 ELSE 0]
    /\ refs = [x \in Items |->
                 IF x = "p1" THEN [NoRefs EXCEPT !["distro"] = "d1"]
                 ELSE IF x = "s1" THEN [NoRefs EXCEPT !["profile"] = "p3"]
                 ELSE NoRefs]
    /\ kopts = [x \in Items |-> Concrete(EmptyDict)]
    /\ scalar = [x \in Items |-> VALUE_INHERITED]
    /\ fields = NoFields
    /\ cache = [x \in Items |-> EMPTY]
    /\ registered = [x \in Items |-> x \notin UpperProfiles]
    /\ inmemory = [x \in Items |-> TRUE]
    /\ has_initialized = [x \in Items |-> TRUE]
    /\ settings = [cache_enabled |-> TRUE, kernel_options |-> EmptyDict,
                   has_kernel_options |-> TRUE,
                   default_kernel_options |-> NoField,
                   field |-> MISSING, default_field |-> MISSING]
    /\ \E b \in BOOLEAN : thread = [NoThread EXCEPT !.lock = b]
    /\ last = NoCall

WalkNext ==
    \/ \E op \in WalkOps, x \in {"p1", "p2"} : BeginWalk(op, x)
    \/ StepWalk
    \/ EndWalk
    \/ \E x \in {"p2", "p3"}, name \in Profiles \cup {""} :
          /\ thread.op # "idle" => (~thread.lock /\ last.op # "parent")
          /\ SetParent(x, name)

SpecWalk == WalkInit /\ [][WalkNext]_vars

(***************************************************************************)
(* Specification of a write made in two steps beside resolving threads:    *)
(* distro d1, profile p1 on d1, p2 a child of p1.  Whether the callers     *)
(* hold a global lock, which keeps a resolved read out of a write in       *)
(* progress, is drawn.                                                     *)
(***************************************************************************)
ThreadsInit ==
    /\ parent = [x \in Items |-> IF x = "p2" THEN "p1" ELSE ""]
    /\ depth = [x \in Items |-> IF x = "p2" THEN 1 ELSE 0]
    /\ refs = [x \in Items |->
                 IF x = "p1" THEN [NoRefs EXCEPT !["distro"] = "d1"] ELSE NoRefs]
    /\ kopts = [x \in Items |-> Concrete(EmptyDict)]
    /\ scalar = [x \in Items |-> VALUE_INHERITED]
    /\ fields = NoFields
    /\ cache = [x \in Items |-> EMPTY]
    /\ registered = [x \in Items |-> x \notin UpperProfiles]
    /\ inmemory = [x \in Items |-> TRUE]
    /\ has_initialized = [x \in Items |-> TRUE]
    /\ settings = [cache_enabled |-> TRUE, kernel_options |-> EmptyDict,
                   has_kernel_options |-> TRUE,
                   default_kernel_options |-> NoField,
                   field |-> MISSING, default_field |-> MISSING]
    /\ \E b \in BOOLEAN : thread = [NoThread EXCEPT !.lock = b]
    /\ last = NoCall

ThreadsNext ==
    \/ \E x \in {"d1", "p1"}, value \in DictInputs : BeginSetKernelOptions(x, value)
    \/ EndSetKernelOptions
    \/ \E y \in {"d1", "p1", "p2"} :
          /\ thread.lock => thread.op = "idle"
          /\ Resolve(y)

SpecThreads == ThreadsInit /\ [][ThreadsNext]_vars

(***************************************************************************)
(* Specification of the frame of a write: the system s1 names the profile  *)
(* p2, p3 can be made a child of p2; whether p2 is registered in its       *)
(* collection and in memory is drawn.                                      *)
(***************************************************************************)
FrameInit ==
    /\ parent = [x \in Items |-> ""]
    /\ depth = [x \in Items |-> 0]
    /\ refs = [x \in Items |->
                 IF x \in {"p1", "p2"} THEN [NoRefs EXCEPT !["distro"] = "d1"]
                 ELSE IF x = "s1" THEN [NoRefs EXCEPT !["profile"] = "p2"]
                 ELSE NoRefs]
    /\ kopts = [x \in Items |-> Concrete(EmptyDict)]
    /\ scalar = [x \in Items |-> VALUE_INHERITED]
    /\ fields = NoFields
    /\ cache = [x \in Items |-> EMPTY]
    /\ \E b \in BOOLEAN :
          registered = [x \in Items |-> /\ x \notin UpperProfiles
                                         /\ (x # "p2" \/ b)]
    /\ \E b \in BOOLEAN : inmemory = [x \in Items |-> x # "p2" \/ b]
    /\ has_initialized = [x \in Items |-> TRUE]
    /\ settings = [cache_enabled |-> TRUE, kernel_options |-> EmptyDict,
                   has_kernel_options |-> TRUE,
                   default_kernel_options |-> NoField,
                   field |-> MISSING, default_field |-> MISSING]
    /\ thread = NoThread
    /\ last = NoCall

FrameNext ==
    \/ \E name \in {"", "p1"} : SetParent("p2", name)
    \/ \E name \in {"", "p2"} : SetParent("p3", name)
    \/ \E value \in DictInputs : SetKernelOptions("p2", value)
    \/ \E x \in {"p2", "p3", "s1"} : Resolve(x)

SpecFrame == FrameInit /\ [][FrameNext]_vars

(***************************************************************************)
(* Specification of the graph walks: profiles p1 and p3 under distro d1,   *)
(* system s1 on profile p2; the parents of the profiles are set freely.    *)
(***************************************************************************)
GraphInit ==
    /\ parent = [x \in Items |-> ""]
    /\ depth = [x \in Items |-> 0]
    /\ refs = [x \in Items |->
                 IF x \in {"p1", "p3"} THEN [NoRefs EXCEPT !["distro"] = "d1"]
                 ELSE IF x = "s1" THEN [NoRefs EXCEPT !["profile"] = "p2"]
                 ELSE NoRefs]
    /\ kopts = [x \in Items |-> Concrete(EmptyDict)]
    /\ scalar = [x \in Items |-> VALUE_INHERITED]
    /\ fields = NoFields
    /\ cache = [x \in Items |-> EMPTY]
    /\ registered = [x \in Items |-> x \notin UpperProfiles]
    /\ inmemory = [x \in Items |-> TRUE]
    /\ has_initialized = [x \in Items |-> TRUE]
    /\ settings = [cache_enabled |-> TRUE, kernel_options |-> EmptyDict,
                   has_kernel_options |-> TRUE,
                   default_kernel_options |-> NoField,
                   field |-> MISSING, default_field |-> MISSING]
    /\ thread = NoThread
    /\ last = NoCall

GraphNext ==
    \/ \E x \in Profiles, name \in Profiles \cup {""} : SetParent(x, name)
    \/ \E x \in Items \ UpperProfiles : TreeWalk(x)
    \/ \E x \in Items \ UpperProfiles : Descendants(x)
    \/ \E x \in Items \ UpperProfiles : GetConceptualParent(x)
    \/ \E x \in Items \ UpperProfiles : GrabTree(x)

SpecGraph == GraphInit /\ [][GraphNext]_vars

(***************************************************************************)
(* The install-pre trigger of modules/install_pre_puppet.py.  The settings *)
(* it reads are further fields of the settings record; the blended view of *)
(* the system holds hostname and the two search-domain lists.              *)
(***************************************************************************)
\* str(v) of a settings value.
str(v) == v.s

\* Variant: the setting is tested as a Python truth value.
truthy_bool(v) == v.s \notin {"", "0", "False"}

\* str(v).lower() in ["1", "yes", "y", "true"].
truthy(v) == lower(str(v)) \in {"1", "yes", "y", "true"}

\* re.match(r'[\w-]+\..+', hostname) on the host names of the model.
is_fqdn(h) == h \in {"h1.lan", "h1.org"}

\* utils.blender(api, False, api.find_system(name)).
blender(name) == fields[name]

\* The host name the command is given: a search domain is appended while
\* the name is not fully qualified.
puppet_hostname(system) ==
    LET h0 == system.hostname
        h1 == IF ~is_fqdn(h0) /\ system.name_servers_search # << >>
              THEN h0 \o "." \o system.name_servers_search[1] ELSE h0
    IN IF ~is_fqdn(h1) /\ system.default_name_servers_search # << >>
       THEN h1 \o "." \o system.default_name_servers_search[1] ELSE h1

\* run(api, args, logger) with args = [objtype, name]: ret is the value
\* returned, cmds the commands executed, log the warnings written.  outcome
\* is what utils.subprocess_call does: return 0, return non-zero or raise.
run(objtype, name, outcome) ==
    LET skipped == [ret |-> 0, cmds |-> << >>, log |-> << >>]
    IN IF objtype # "system" THEN skipped
       ELSE IF ~truthy(settings.puppet_auto_setup) THEN skipped
       ELSE IF ~truthy(settings.remove_old_puppet_certs_automatically)
       THEN skipped
       ELSE LET cmd == <<settings.puppetca_path, "cert", "clean",
                         puppet_hostname(blender(name))>>
                rc == IF outcome = "rc1" THEN 1 ELSE 0
            IN [ret |-> 0, cmds |-> <<cmd>>,
                log |-> (IF outcome = "raise"
                         THEN <<"failed to execute">> ELSE << >>)
                        \o (IF rc # 0
                            THEN <<"puppet cert removal failed">> ELSE << >>)]

\* The trigger called for an object being installed.
Run(objtype, name, outcome) ==
    LET r == run(objtype, name, outcome)
    IN /\ last' = [Call("run", name, objtype, INHERITED, "ok", r.ret)
                    EXCEPT !.walk = r.cmds, !.kwargs = r.log,
                           !.got = IF r.cmds = << >> THEN "" ELSE outcome]
       /\ UNCHANGED <<graphVars, attrVars, cache, envVars>>

PuppetInit ==
    /\ parent = [x \in Items |-> ""]
    /\ depth = [x \in Items |-> 0]
    /\ refs = [x \in Items |->
                 IF x = "p1" THEN [NoRefs EXCEPT !["distro"] = "d1"]
                 ELSE IF x = "s1" THEN [NoRefs EXCEPT !["profile"] = "p1"]
                 ELSE NoRefs]
    /\ kopts = [x \in Items |-> Concrete(EmptyDict)]
    /\ scalar = [x \in Items |-> VALUE_INHERITED]
    /\ \E h \in {"", "h1", "h1.lan"}, ns \in {<< >>, <<"lan">>},
          dns \in {<< >>, <<"org">>} :
          fields = [x \in Items |->
                      IF x = "s1"
                      THEN [netboot_enabled |-> TRUE,
                            interfaces |-> [n \in {} |-> ""],
                            hostname |-> h, name_servers_search |-> ns,
                            default_name_servers_search |-> dns]
                      ELSE NoFields[x]]
    /\ cache = [x \in Items |-> EMPTY]
    /\ registered = [x \in Items |-> x \notin UpperProfiles]
    /\ inmemory = [x \in Items |-> TRUE]
    /\ has_initialized = [x \in Items |-> TRUE]
    /\ \E a, b \in {Str("1"), Str("YES"), Str("y"), Str("true"), Str("no"),
                    Str(""), Bool(TRUE), Bool(FALSE), Num(1), Num(0)} :
          settings = [cache_enabled |-> TRUE, kernel_options |-> EmptyDict,
                      has_kernel_options |-> TRUE,
                      default_kernel_options |-> NoField,
                      field |-> MISSING, default_field |-> MISSING,
                      puppet_auto_setup |-> a,
                      remove_old_puppet_certs_automatically |-> b,
                      puppetca_path |-> "/usr/bin/puppet"]
    /\ thread = NoThread
    /\ last = NoCall

\* The trigger is called for a registered system or for a profile.
PuppetNext ==
    \E args \in {<<"system", "s1">>, <<"profile", "p1">>},
       outcome \in {"rc0", "rc1", "raise"} :
        Run(args[1], args[2], outcome)

SpecPuppet == PuppetInit /\ [][PuppetNext]_vars

(***************************************************************************)
(* Specification of names differing in letter case: the profiles p1 and P1 *)
(* are both registered on distro d1, the parents of p2 and p3 are set by   *)
(* the setter (which looks the name up exactly), and the profile of the    *)
(* system is drawn.                                                        *)
(***************************************************************************)
LinksInit ==
    /\ parent = [x \in Items |-> ""]
    /\ depth = [x \in Items |-> 0]
    /\ \E sp \in {"p2", "p3"} :
          refs = [x \in Items |->
                    IF x \in {"p1", "P1"} THEN [NoRefs EXCEPT !["distro"] = "d1"]
                    ELSE IF x = "s1" THEN [NoRefs EXCEPT !["profile"] = sp]
                    ELSE NoRefs]
    /\ kopts = [x \in Items |-> Concrete(EmptyDict)]
    /\ scalar = [x \in Items |-> VALUE_INHERITED]
    /\ fields = NoFields
    /\ cache = [x \in Items |-> EMPTY]
    /\ registered = [x \in Items |-> TRUE]
    /\ inmemory = [x \in Items |-> TRUE]
    /\ has_initialized = [x \in Items |-> TRUE]
    /\ settings = [cache_enabled |-> TRUE, kernel_options |-> EmptyDict,
                   has_kernel_options |-> TRUE,
                   default_kernel_options |-> NoField,
                   field |-> MISSING, default_field |-> MISSING]
    /\ thread = NoThread
    /\ last = NoCall

LinksNext ==
    \/ \E x \in {"p2", "p3"}, name \in {"", "p1", "P1", "p2"} : SetParent(x, name)
    \/ \E x \in {"d1", "p1", "P1", "p2"} : Descendants(x)
    \/ \E x \in {"p1", "P1"} : TreeWalk(x)

SpecLinks == LinksInit /\ [][LinksNext]_vars

(***************************************************************************)
(* Specification of dict resolution and deduplication: the settings fields *)
(* are drawn, the raw values and the parent of p2 are set by the setters.  *)
(***************************************************************************)
Dict(a, b) == [k \in Keys |-> IF k = "a" THEN a ELSE b]

DictWritten == {"d1", "p1", "p2"}
DictRead == {"d1", "p1", "p2", "s1"}
DictWrites == {INHERITED,
               Concrete(Dict("1", "1")),
               Concrete(Dict("2", ABSENT)),
               Concrete(Dict(ANNIHILATOR, "1"))}

DictInit ==
    /\ parent = [x \in Items |-> ""]
    /\ depth = [x \in Items |-> 0]
    /\ refs = [x \in Items |->
                 IF x = "p1" THEN [NoRefs EXCEPT !["distro"] = "d1"]
                 ELSE IF x = "s1" THEN [NoRefs EXCEPT !["profile"] = "p2"]
                 ELSE NoRefs]
    /\ kopts = [x \in Items |-> Concrete(EmptyDict)]
    /\ scalar = [x \in Items |-> VALUE_INHERITED]
    /\ fields = NoFields
    /\ cache = [x \in Items |-> EMPTY]
    /\ registered = [x \in Items |-> x \notin UpperProfiles]
    /\ inmemory = [x \in Items |-> TRUE]
    /\ has_initialized = [x \in Items |-> TRUE]
    /\ settings \in [cache_enabled : {TRUE},
                      kernel_options : {EmptyDict, Dict("1", ABSENT)},
                      has_kernel_options : BOOLEAN,
                      default_kernel_options : {NoField, Field(Dict("2", "1"))},
                      field : {MISSING}, default_field : {MISSING}]
    /\ settings.has_kernel_options \/ settings.kernel_options = EmptyDict
    /\ thread = NoThread
    /\ last = NoCall

DictNext ==
    \/ \E name \in {"", "p1"} : SetParent("p2", name)
    \/ \E x \in DictWritten, value \in DictWrites : SetKernelOptions(x, value)
    \/ \E x \in DictRead : GetKernelOptions(x)

SpecDict == DictInit /\ [][DictNext]_vars

(***************************************************************************)
(* Specification of the end-to-end scenario: distro d1, profile p1 with    *)
(* distro d1 and inherited kernel options, profile p2 with parent p1.      *)
(***************************************************************************)
ScenarioItems == {"d1", "p1", "p2"}

ScenarioInit ==
    /\ parent = [x \in Items |-> IF x = "p2" THEN "p1" ELSE ""]
    /\ depth = [x \in Items |-> IF x = "p2" THEN 1 ELSE 0]
    /\ refs = [x \in Items |->
                 IF x = "p1" THEN [NoRefs EXCEPT !["distro"] = "d1"] ELSE NoRefs]
    /\ kopts = [x \in Items |-> IF x = "p1" THEN INHERITED ELSE Concrete(EmptyDict)]
    /\ scalar = [x \in Items |-> VALUE_INHERITED]
    /\ fields = NoFields
    /\ cache = [x \in Items |-> EMPTY]
    /\ registered = [x \in Items |-> x \notin UpperProfiles]
    /\ inmemory = [x \in Items |-> TRUE]
    /\ has_initialized = [x \in Items |-> TRUE]
    /\ settings = [cache_enabled |-> TRUE, kernel_options |-> EmptyDict,
                   has_kernel_options |-> TRUE,
                   default_kernel_options |-> NoField,
                   field |-> MISSING, default_field |-> MISSING]
    /\ thread = NoThread
    /\ last = NoCall

ScenarioNext ==
    \/ \E x \in ScenarioItems, value \in DictInputs : SetKernelOptions(x, value)
    \/ \E x \in ScenarioItems : Resolve(x)

SpecScenario == ScenarioInit /\ [][ScenarioNext]_vars

(***************************************************************************)
(* Properties.                                                             *)
(***************************************************************************)
\* The items reachable from S by following parent-name links n times.
RECURSIVE UpClosure(_, _)
UpClosure(S, n) ==
    IF n = 0 THEN S
    ELSE UpClosure(S \cup ({parent[y] : y \in S \cap Items} \ {""}), n - 1)

StrictAncestors(x) == UpClosure({parent[x]} \ {""}, Cardinality(Items))

WriteOps == {"parent", "kernel_options"}

\* What dict resolution starts from: the resolved mapping of the conceptual
\* parent, or the settings mapping when there is no conceptual parent.
DictBase(x) ==
    IF get_conceptual_parent(x) # NONE
    THEN resolve_dict(get_conceptual_parent(x)).d
    ELSE IF settings.has_kernel_options THEN settings.kernel_options
    ELSE EmptyDict

C12_ParentMerged ==
    (/\ last.op = "kernel_options_get" /\ last.out = "ok"
     /\ last.item \in Profiles
     /\ Parent(last.item) # NONE)
        => \A k \in Keys :
              (/\ ~kopts[Parent(last.item)].inherit
               /\ kopts[Parent(last.item)].dict[k] \in Vals
               /\ (kopts[last.item].inherit \/ kopts[last.item].dict[k] = ABSENT))
                  => last.ret[k] = kopts[Parent(last.item)].dict[k]

\* C13: a returned kernel_options getter gives a mapping without any key
\* whose value in the item's own raw mapping is the annihilator.
C13_NoAnnihilatedKey ==
    (last.op = "kernel_options_get" /\ last.out = "ok") =>
        \A k \in Keys :
            (~kopts[last.item].inherit /\ kopts[last.item].dict[k] = ANNIHILATOR)
                => last.ret[k] = ABSENT

\* C13 witness: p1 annihilates the key a that its distro provides.
C13_Witness ==
    /\ last.op = "kernel_options_get" /\ last.out = "ok" /\ last.item = "p1"
    /\ kopts["p1"] = Concrete(Dict(ANNIHILATOR, ABSENT))
    /\ DictBase("p1") = Dict("1", "1")
    /\ last.ret = Dict(ABSENT, "1")

ChainDict(x) ==
    IF Parent(x) # NONE THEN resolve_dict(Parent(x)).d
    ELSE IF get_conceptual_parent(x) # NONE
    THEN resolve_dict(get_conceptual_parent(x)).d
    ELSE IF settings.has_kernel_options THEN settings.kernel_options
    ELSE IF settings.default_kernel_options.present
    THEN settings.default_kernel_options.d
    ELSE EmptyDict

\* C15: after a completed kernel_options setter with a concrete mapping V
\* the raw value holds exactly the entries of V whose key is absent from
\* the chain mapping or whose value differs from it; after the setter with
\* INHERITED the raw value is the sentinel.
C15_Deduplicated ==
    (last.op = "kernel_options" /\ last.out = "ok") =>
        LET x == last.item
            V == last.val.dict
        IN IF last.val.inherit THEN kopts[x] = INHERITED
           ELSE kopts[x] =
                  Concrete([k \in Keys |->
                              IF V[k] # ABSENT
                                 /\ (ChainDict(x)[k] = ABSENT \/ ChainDict(x)[k] # V[k])
                              THEN V[k] ELSE ABSENT])

\* C15 witness: p2 under p1 is given a = 1, b = 1 while p1 resolves to
\* a = 2, b = 1 and the distro above to a = 1, b = 1: a = 1 alone is stored.
C15_Witness ==
    /\ last = Call("kernel_options", "p2", "", Concrete(Dict("1", "1")), "ok", EmptyDict)
    /\ parent["p2"] = "p1"
    /\ resolve_dict("p1") = Ok(Dict("2", "1"))
    /\ DictBase("p2") = Dict("1", "1")
    /\ kopts["p2"] = Concrete(Dict("1", ABSENT))

\* y depends directly on z: y is a same-type child of z, or an item of
\* another family whose reference attribute, per TYPE_DEPENDENCIES, names z.
DependsOn(y, z) ==
    /\ registered[y]
    /\ \/ COLLECTION_TYPE(y) = COLLECTION_TYPE(z) /\ parent[y] = z
       \/ \E j \in DOMAIN TYPE_DEPENDENCIES(COLLECTION_TYPE(z)) :
             LET dep == TYPE_DEPENDENCIES(COLLECTION_TYPE(z))[j]
             IN /\ dep[2] # "parent"
                /\ COLLECTION_TYPE(y) = dep[1]
                /\ refs[y][dep[2]] = z

\* The items that depend on a member of S directly or in n further steps.
RECURSIVE Dependents(_, _)
Dependents(S, n) ==
    LET D == {y \in Items : \E z \in S : DependsOn(y, z)}
    IN IF n = 0 THEN D
       ELSE D \cup Dependents(D, n - 1)

AllDependents(x) == Dependents({x}, Cardinality(Items))

\* The same-type descendants of x along parent links.
RECURSIVE ChildrenClosure(_, _)
ChildrenClosure(S, n) ==
    LET D == {y \in Items : registered[y] /\ \E z \in S :
                 COLLECTION_TYPE(y) = COLLECTION_TYPE(z) /\ parent[y] = z}
    IN IF n = 0 THEN D
       ELSE D \cup ChildrenClosure(D, n - 1)

TransitiveChildren(x) == ChildrenClosure({x}, Cardinality(Items))

\* C16: a returned descendants(x) holds every item that depends on x
\* directly or transitively.
C16_DescendantsComplete ==
    (last.op = "descendants" /\ last.out = "ok")
        => AllDependents(last.item) \subseteq Range(last.walk)

\* C16 witness: the descendants of the distro hold its two profiles, the
\* sub-profile p2 of p1 and the system attached to p2.
C16_Witness ==
    /\ last.op = "descendants" /\ last.out = "ok" /\ last.item = "d1"
    /\ parent["p2"] = "p1" /\ parent["p1"] = ""
    /\ Range(last.walk) = {"p1", "p2", "p3", "s1"}

\* C17: a returned descendants(x) lists no item twice, and lists x only if
\* x depends, directly or transitively, on itself.
C17_DescendantsSet ==
    (last.op = "descendants" /\ last.out = "ok") =>
        /\ \A i, j \in DOMAIN last.walk : last.walk[i] = last.walk[j] => i = j
        /\ last.item \in Range(last.walk) => last.item \in AllDependents(last.item)

\* C17 witness: p1 has the child p2 (found by the walk and again by the
\* search on the parent field) and, through it, the system s1.
C17_Witness ==
    /\ last.op = "descendants" /\ last.out = "ok" /\ last.item = "p1"
    /\ parent["p2"] = "p1" /\ parent["p3"] = "p2"
    /\ last.walk = <<"p2", "p3", "s1">>

\* C18: a returned tree_walk(x) lists exactly the transitive children of x,
\* each once and never x, in depth-first pre-order: the transitive children
\* of every listed item follow it immediately, and children of one parent
\* come in the order of the collection.
C18_TreeWalkPreOrder ==
    (last.op = "tree_walk" /\ last.out = "ok") =>
        LET w == last.walk
            Before(y, z) == \E i, j \in DOMAIN ItemOrder :
                               i < j /\ ItemOrder[i] = y /\ ItemOrder[j] = z
        IN /\ Range(w) = TransitiveChildren(last.item)
           /\ Len(w) = Cardinality(Range(w))
           /\ last.item \notin Range(w)
           /\ \A i \in DOMAIN w :
                 LET size == Cardinality(TransitiveChildren(w[i]))
                 IN /\ i + size <= Len(w)
                    /\ {w[j] : j \in (i + 1)..(i + size)} = TransitiveChildren(w[i])
           /\ \A i, j \in DOMAIN w :
                 (i < j /\ parent[w[i]] = parent[w[j]]) => Before(w[i], w[j])

\* C18 witness: a walk over a chain of two levels.
C18_Witness ==
    /\ last.op = "tree_walk" /\ last.out = "ok" /\ last.item = "p3"
    /\ last.walk = <<"p1", "p2">>
    /\ parent["p1"] = "p3" /\ parent["p2"] = "p1"

\* C19: every call of tree_walk, descendants, get_conceptual_parent and
\* grab_tree returns, whatever parent assignments were made before.
C19_WalksTerminate ==
    last.op \in {"tree_walk", "descendants", "get_conceptual_parent", "grab_tree"}
        => last.out = "ok"

\* C20: with caching enabled, after a completed write of the parent (not
\* inheritable) or of kernel_options (inheritable) of an initialized item x
\* the cache entry of x is EMPTY, whether or not x is registered in its
\* collection or in memory.
C20_OwnEntryCleaned ==
    [][ (/\ last'.op \in WriteOps
         /\ last'.out = "ok"
         /\ settings.cache_enabled
         /\ has_initialized[last'.item])
        => cache'[last'.item] = EMPTY ]_vars

\* C20 witness: the entry of p2, neither registered nor in memory, is EMPTY
\* right after p2 was given the parent p1, while entries of others stay.
C20_Witness ==
    /\ last = Call("parent", "p2", "p1", INHERITED, "ok", EmptyDict)
    /\ ~registered["p2"] /\ ~inmemory["p2"]
    /\ settings.cache_enabled
    /\ cache["p2"] = EMPTY
    /\ cache["p1"].populated

\* C21: while cache_enabled is false a write of parent or kernel_options
\* changes no cache entry, and it never fails on the computation of the
\* descendants, which it does not make.
C21_DisabledIsNoOp ==
    [][ (last'.op \in WriteOps /\ ~settings.cache_enabled)
        => /\ cache' = cache
           /\ last'.out # "RecursionError" ]_vars

\* C21 witness: caching is off, p1 and p2 are each other's parent under the
\* distro d1, and a write of d1 completed and left the populated entries.
C21_Witness ==
    /\ last.op = "kernel_options" /\ last.item = "d1" /\ last.out = "ok"
    /\ ~settings.cache_enabled
    /\ parent["p1"] = "p2" /\ parent["p2"] = "p1"
    /\ cache["d1"].populated /\ cache["p1"].populated

C23_CleanupAfterInit ==
    [][ last'.op \in WriteOps
        => IF ~has_initialized[last'.item]
           THEN cache' = cache
           ELSE (last'.out = "ok" /\ settings.cache_enabled)
                    => cache'[last'.item] = EMPTY ]_vars

\* C23 witness: p3, under construction while the collection holds an item
\* of its name with the child p2, was given kernel options, and the
\* populated entry of p2 is still there.
C23_Witness ==
    /\ ~has_initialized["p3"] /\ registered["p3"]
    /\ last.op = "kernel_options" /\ last.item = "p3" /\ last.out = "ok"
    /\ kopts["p3"] = Concrete([k \in Keys |-> "1"])
    /\ parent["p2"] = "p3"
    /\ cache["p2"].populated

\* C24: a returned grab_tree(x) starts with x, ends with the settings
\* object, has at least two elements, and between them every element is
\* followed by its logical parent (its own-type parent when it has one,
\* else its conceptual parent); the element before the settings has none.
C24_GrabTreeChain ==
    (last.op = "grab_tree" /\ last.out = "ok")
        => LET w == last.walk
               n == Len(w)
               Up(y) == IF Parent(y) # NONE THEN Parent(y)
                        ELSE get_conceptual_parent(y)
           IN /\ n >= 2
              /\ w[1] = last.item
              /\ w[n] = "settings"
              /\ \A i \in 1..(n - 1) : w[i] \in Items
              /\ \A i \in 1..(n - 2) : w[i + 1] = Up(w[i])
              /\ Up(w[n - 1]) = NONE

\* C24 witness: the tree of system s1 through profile p2, its parent p1 and
\* the distro d1 up to the settings.
C24_Witness ==
    /\ last.op = "grab_tree" /\ last.out = "ok"
    /\ last.walk = <<"s1", "p2", "p1", "d1", "settings">>

BoolCriterion(c) == c[1] = "netboot_enabled"
BoolMatches(y, c) ==
    LET b == fields[y].netboot_enabled
    IN CASE c[2] \in {"yes", "YES", "1"} -> b
         [] c[2] = "no" -> ~b
         [] c[2] = "~yes" -> ~b
         [] c[2] = "~no" -> b

\* C26: on the system s1, find_match with criteria on the boolean field
\* returns true when every criterion matches (the pattern lowercased is one
\* of 1, true, y, yes exactly when the field is true; the opposite after a
\* leading ~), and returns false, without looking at the criteria after it,
\* when a criterion fails that is preceded by matching ones only.
C26_BooleanAndNegation ==
    (last.op = "find_match" /\ last.item = "s1")
        => LET kw == last.kwargs
               n == Len(kw)
               Passes(i) == BoolCriterion(kw[i]) /\ BoolMatches("s1", kw[i])
               Fails(i) == BoolCriterion(kw[i]) /\ ~BoolMatches("s1", kw[i])
           IN /\ (\A i \in 1..n : Passes(i))
                    => (last.out = "ok" /\ last.got = "True")
              /\ (\E i \in 1..n : Fails(i) /\ \A j \in 1..(i - 1) : Passes(j))
                    => (last.out = "ok" /\ last.got = "False")

\* C26 witness: ~yes against the true field fails, and find_match returned
\* false without evaluating the criterion on a missing field after it.
C26_Witness ==
    /\ last.op = "find_match" /\ last.item = "s1" /\ last.no_errors
    /\ last.kwargs = << <<"netboot_enabled", "~yes">>, <<"nosuchfield", "h1">> >>
    /\ fields["s1"].netboot_enabled
    /\ last.out = "ok" /\ last.got = "False"

\* A key that is neither a top-level key of the flattened map of y nor an
\* interface-level field of an item with interfaces.
AbsentField(y, key) ==
    ~InData(y, key) /\ ~(InData(y, "interfaces") /\ key \in InterfaceKeys)

\* C27 (as stated): find_match with no_errors=True and a criterion on a
\* field absent from the item's flattened map returns false and raises
\* nothing.
C27_AbsentFieldNoMatch ==
    (/\ last.op = "find_match"
     /\ last.no_errors
     /\ \E i \in 1..Len(last.kwargs) : AbsentField(last.item, last.kwargs[i][1]))
        => (last.out = "ok" /\ last.got = "False")

\* C28 (as stated): on an item with interfaces and a whitelisted
\* interface-level field, find_match_single_key succeeds when the pattern
\* is the name of an interface or matches, by the rules of a top-level
\* string field, the value of that field in some interface.
C28_InterfaceMatch ==
    (/\ last.op = "find_match_single_key"
     /\ InData(last.item, "interfaces")
     /\ last.kwargs[1][1] \in InterfaceKeys
     /\ last.kwargs[1][2] # NONE
     /\ \E name \in DOMAIN fields[last.item].interfaces :
           \/ last.kwargs[1][2] = name
           \/ find_compare(last.kwargs[1][2], fields[last.item].interfaces[name]))
        => (last.out = "ok" /\ last.got = "True")

\* C29 (as stated): right after kernel_options of x was assigned a concrete
\* mapping V, resolving kernel_options on x gives a mapping that holds
\* every entry of V whose value is not the annihilator, wherever x is in
\* the graph.
C29_SetThenGet ==
    (last.op = "kernel_options" /\ last.out = "ok" /\ ~last.val.inherit)
        => /\ resolve_dict(last.item).st = "ok"
           /\ \A k \in Keys :
                 last.val.dict[k] \in Vals
                    => resolve_dict(last.item).d[k] = last.val.dict[k]

\* C30 (as stated): a call of _resolve_enum on an INHERITED raw value that
\* comes back returns the member for the first value of the order of
\* _resolve (same-type parent, conceptual parent, settings field, settings
\* default_ field), and raises exactly when that order has no value.
C30_EnumLikeScalar ==
    (/\ last.op = "resolve_enum"
     /\ scalar[last.item] = VALUE_INHERITED
     /\ last.out # "hang")
        => /\ (last.out = "AttributeError") <=> (C10_Stated(last.item) = MISSING)
           /\ last.out = "ok" => last.got = enum_type(C10_Stated(last.item))

\* C31: a write of the parent of x (parent and depth are not inheritable),
\* and a write of any attribute of an x that is not in memory or not
\* registered in its collection, leaves the cache entry of every item
\* other than x as it was.
C31_WriteFrame ==
    [][ (/\ last'.op \in WriteOps
         /\ \/ last'.op = "parent"
            \/ ~inmemory[last'.item]
            \/ ~registered[last'.item])
        => \A y \in Items \ {last'.item} : cache'[y] = cache[y] ]_vars

\* C31 witness: kernel options were given to p2, which its collection does
\* not hold, and the populated entry of the system s1 that names p2 as its
\* profile is still there.
C31_Witness ==
    /\ last.op = "kernel_options" /\ last.item = "p2" /\ last.out = "ok"
    /\ kopts["p2"] = Concrete([k \in Keys |-> "1"])
    /\ inmemory["p2"] /\ ~registered["p2"]
    /\ refs["s1"]["profile"] = "p2"
    /\ cache["s1"].populated

\* C32: at the step that stores the raw value of a kernel_options write on
\* x, after the cleanup made by an earlier step, the cache is not touched;
\* an entry of x or of a descendant of x that is populated then was
\* populated between the two steps, which needs unlocked callers, and holds
\* the resolution from the raw value before the store.  Under the lock
\* every such entry is EMPTY when the write completes.
C32_StaleOnlyWhenInterleaved ==
    [][ (thread.op = "kernel_options" /\ thread'.op = "idle")
        => /\ cache' = cache
           /\ \A y \in {thread.item} \cup descendants(thread.item) :
                 cache'[y].populated
                    => /\ ~thread.lock
                       /\ cache'[y].value = resolve_dict(y).d ]_vars

\* C32 witness: without the lock the write of d1 has completed, and the
\* entry of its descendant p2, populated between the cleanup and the store,
\* holds the superseded value, not what resolving p2 gives now.
C32_Witness ==
    /\ ~thread.lock /\ thread.op = "idle"
    /\ last.op = "kernel_options" /\ last.item = "d1" /\ last.out = "ok"
    /\ cache["p2"].populated
    /\ cache["p2"].value = EmptyDict
    /\ resolve_dict("p2").d = [k \in Keys |-> "1"]

\* C33: a traversal during which no parent is assigned (the callers hold
\* the lock) returns what tree_walk, or descendants, gives on the one graph
\* there is, and raises RecursionError exactly when that one does.
C33_ConsistentUnderLock ==
    (last.op \in WalkOps /\ thread.lock)
        => LET whole == IF last.op = "tree_walk" THEN tree_walk(last.item)
                        ELSE IF RECURSION_ERROR \in descendants(last.item)
                        THEN <<RECURSION_ERROR>>
                        ELSE InOrder(descendants(last.item), 1)
           IN /\ whole = last.pre
              /\ (last.out = "RecursionError") <=> (RECURSION_ERROR \in Range(whole))
              /\ last.out = "ok" => last.walk = whole

\* C33 witness: without the lock p3 was moved from p2 to p1 after the walk
\* of p1 had read the children of p1 and before it read those of p2; the
\* walk returned p2 alone, while on the graph before and on the graph after
\* the assignment it gives p2 and p3.
C33_Witness ==
    /\ ~thread.lock
    /\ last.op = "tree_walk" /\ last.item = "p1" /\ last.out = "ok"
    /\ last.walk = <<"p2">>
    /\ last.pre = <<"p2", "p3">>
    /\ parent["p2"] = "p1" /\ parent["p3"] = "p1"
    /\ tree_walk("p1") = <<"p2", "p3">>

\* The strings of the model that read "1", "yes", "y" or "true" when the
\* case of letters is ignored.
TruthyStrings == {"1", "yes", "YES", "y", "true", "True"}

\* C35: the trigger executes the puppet cert clean command only when
\* objtype is "system" and both settings are truthy, at most once per call,
\* and it returns 0 whether the command succeeds, returns a non-zero code
\* or raises.
C35_PuppetTrigger ==
    last.op = "run"
        => /\ Len(last.walk) <= 1
           /\ last.walk # << >>
                 => /\ last.name = "system"
                    /\ settings.puppet_auto_setup.s \in TruthyStrings
                    /\ settings.remove_old_puppet_certs_automatically.s
                          \in TruthyStrings
                    /\ last.walk[1][2] = "cert" /\ last.walk[1][3] = "clean"
           /\ last.out = "ok" /\ last.ret = 0

\* C35 witness: with the settings "YES" and True the command is executed
\* once for the system, raises, and the trigger has returned 0.
C35_Witness ==
    /\ last.op = "run" /\ last.name = "system" /\ last.item = "s1"
    /\ settings.puppet_auto_setup = Str("YES")
    /\ settings.remove_old_puppet_certs_automatically = Bool(TRUE)
    /\ Len(last.walk) = 1 /\ last.got = "raise"
    /\ last.ret = 0

\* C34: every member of a returned descendants(x) is linked to x by a
\* chain of parent / reference-attribute values that are exactly the names
\* of the items they point to; an item whose link names a different item,
\* for instance one whose name differs only in letter case, is not listed.
C34_DescendantsExactLinks ==
    (last.op = "descendants" /\ last.out = "ok")
        => Range(last.walk) \subseteq AllDependents(last.item)

\* C34 counterexample: p2 is a child of profile P1, and the descendants of
\* the other profile p1 list p2.
C34_Counterexample ==
    /\ last.op = "descendants" /\ last.out = "ok" /\ last.item = "p1"
    /\ registered["p1"] /\ registered["P1"]
    /\ parent["p2"] = "P1"
    /\ "p2" \in Range(last.walk)
    /\ "p2" \notin AllDependents("p1")

\* C1: every populated cache entry holds the value a fresh resolution of
\* the item returns in the same state.
C1_CacheCoherent ==
    \A x \in Items :
        (cache[x].populated /\ resolve_dict(x).st = "ok")
            => cache[x].value = resolve_dict(x).d

\* C2: after a completed write of the inheritable attribute kernel_options
\* of a registered in-memory item x with caching enabled, the cache entry of
\* every member of descendants(x) is EMPTY.
C2_DescendantsInvalidated ==
    (/\ last.op = "kernel_options"
     /\ last.out = "ok"
     /\ settings.cache_enabled
     /\ inmemory[last.item]
     /\ registered[last.item])
        => \A y \in descendants(last.item) : cache[y] = EMPTY

C2_Witness ==
    /\ last.op = "kernel_options"
    /\ last.out = "ok"
    /\ last.item = "d1"
    /\ {"p1", "p2"} \subseteq descendants("d1")
    /\ cache["p1"] = EMPTY /\ cache["p2"] = EMPTY
    /\ cache["d1"] = EMPTY

\* C3: a write to an attribute of x changes the cache entry of no item
\* other than x and the members of descendants(x).
C3_FrameOfWrite ==
    [][ last'.op \in WriteOps
        => \A y \in Items :
              cache'[y] # cache[y]
                  => (y = last'.item \/ y \in descendants(last'.item)) ]_vars

C3_Witness ==
    /\ last.op = "kernel_options"
    /\ last.out = "ok"
    /\ last.item = "p1"
    /\ parent["p1"] = "p3" /\ parent["p2"] = "p3"
    /\ cache["d1"].populated
    /\ cache["p2"].populated

\* C4: with p1 under distro d1 inheriting its kernel options and p2 a child
\* of p1 without an override, once d1.kernel_options is {a: 1} a resolve of
\* p2 returns {a: 1}, whatever was resolved and cached before.
C4_ScenarioResolve ==
    (/\ parent["p2"] = "p1" /\ parent["p1"] = ""
     /\ refs["p1"]["distro"] = "d1"
     /\ kopts["d1"] = Concrete([k \in Keys |-> "1"])
     /\ kopts["p1"] = INHERITED
     /\ kopts["p2"] = Concrete(EmptyDict)
     /\ last.op = "resolve" /\ last.item = "p2")
        => (last.out = "ok" /\ last.ret = [k \in Keys |-> "1"])

C4_Witness ==
    /\ kopts["d1"] = Concrete([k \in Keys |-> "1"])
    /\ kopts["p1"] = INHERITED
    /\ kopts["p2"] = Concrete(EmptyDict)
    /\ last = Call("resolve", "p2", "", INHERITED, "ok", [k \in Keys |-> "1"])
    /\ cache["p2"] = Populated([k \in Keys |-> "1"])
    /\ cache["d1"].populated

\* C5: the parent-name graph is acyclic: no item is its own ancestor.
C5_Acyclic == \A x \in Items : x \notin StrictAncestors(x)

\* C6: an item with a parent has the depth of its parent plus one.  The
\* items on a parent cycle are left out, so that a violation shows a depth
\* gone stale in a well-formed tree.
C6_DepthOfChild ==
    \A x \in Items :
        (Parent(x) # NONE /\ x \notin StrictAncestors(x))
            => depth[x] = depth[Parent(x)] + 1

\* C7: an item without a parent has depth 0.
C7_RootDepthZero == \A x \in Items : parent[x] = "" => depth[x] = 0

\* C8: right after a successful x.parent = name, x's parent name is name and
\* x's depth is the depth of the item of that name plus one.
C8_AfterSetParent ==
    (last.op = "parent" /\ last.out = "ok" /\ last.name # "")
        => /\ parent[last.item] = last.name
           /\ Get(COLLECTION_TYPE(last.item), last.name) = last.name
           /\ depth[last.item] = depth[last.name] + 1

C8_Witness ==
    /\ last = Call("parent", "p2", "p1", INHERITED, "ok", EmptyDict)
    /\ parent["p1"] = "p3" /\ parent["p3"] = ""
    /\ depth["p3"] = 0 /\ depth["p1"] = 1 /\ depth["p2"] = 2

\* C9: x.parent = x's own name, or a name no item of x's collection has,
\* fails with an error and changes no item.
C9_RefusedParent ==
    [][ (/\ last'.op = "parent"
         /\ last'.name # ""
         /\ \/ last'.name = last'.item
            \/ last'.name \notin get_items(COLLECTION_TYPE(last'.item)))
        => /\ last'.out = "CX"
           /\ UNCHANGED <<parent, depth, refs, kopts, scalar, cache,
                          registered, inmemory, has_initialized, settings>> ]_vars

C9_Witness ==
    /\ last.op = "parent"
    /\ last.out = "CX"
    /\ last.name = last.item
    /\ parent[last.item] # ""
    /\ cache[last.item].populated

====
